---- MODULE Spec2Model ----
(***************************************************************************)
(* A model of scripthaus' playbook name resolver (package pathutil).       *)
(* Go strings are TLA+ strings; Len, SubSeq and \o act on them the way     *)
(* len(s), s[m-1:n] and + act on Go strings.                               *)
(***************************************************************************)
EXTENDS Integers, Sequences, FiniteSets, TLC

(***************************************************************************)
(* Bounds of the model.                                                    *)
(***************************************************************************)
\* the longest run of leading dots in a generated playbook name
MaxDots == 3
\* the depth of the deepest directory of the modelled directory chain
MaxDepth == 2
\* the largest number of top-level blocks of a generated document
MaxBlocks == 3
\* the longest fence, in lines, given to directive processing
MaxLines == 2
\* the most calls of processDirectives on one CommandDef
MaxCalls == 2
MaxScanLines == 3

(***************************************************************************)
(* package strings                                                         *)
(***************************************************************************)
Char(s, i) == SubSeq(s, i, i)

Drop(s, n) == SubSeq(s, n + 1, Len(s))

HasPrefix(s, p) == Len(s) >= Len(p) /\ SubSeq(s, 1, Len(p)) = p

HasSuffix(s, p) == Len(s) >= Len(p) /\ SubSeq(s, Len(s) - Len(p) + 1, Len(s)) = p

\* the smallest (first) or the largest member of a set of indexes; 0 for none
Smallest(hits) == IF hits = {} THEN 0 ELSE CHOOSE i \in hits : \A j \in hits : i <= j

Largest(hits) == IF hits = {} THEN 0 ELSE CHOOSE i \in hits : \A j \in hits : i >= j

\* the indexes at which sub occurs in s
Occurrences(s, sub) ==
    {i \in 1..(Len(s) - Len(sub) + 1) : SubSeq(s, i, i + Len(sub) - 1) = sub}

\* strings.Index, 1-based; 0 where Go returns -1
Index(s, sub) == Smallest(Occurrences(s, sub))

\* strings.LastIndex, 1-based; 0 where Go returns -1
LastIndex(s, sub) == Largest(Occurrences(s, sub))

\* the character class [a-zA-Z_] of the regular expressions
LetterChars ==
    {"a","b","c","d","e","f","g","h","i","j","k","l","m","n","o","p","q","r","s","t",
     "u","v","w","x","y","z","A","B","C","D","E","F","G","H","I","J","K","L","M","N",
     "O","P","Q","R","S","T","U","V","W","X","Y","Z","_"}

(***************************************************************************)
(* package path                                                            *)
(***************************************************************************)
\* the elements of p between its slashes (empty elements included); i is the
\* index of the first slash of p
RECURSIVE Components(_), ComponentsAt(_, _)
ComponentsAt(p, i) ==
    IF i = 0 THEN <<p>> ELSE <<SubSeq(p, 1, i - 1)>> \o Components(Drop(p, i))

Components(p) == ComponentsAt(p, Index(p, "/"))

RECURSIVE JoinSlash(_)
JoinSlash(elems) ==
    IF elems = <<>> THEN ""
    ELSE IF Len(elems) = 1 THEN elems[1]
    ELSE elems[1] \o "/" \o JoinSlash(Tail(elems))

\* the ".." rule of path.Clean: an inner ".." drops the element before it, a
\* ".." at the start of a rooted path is dropped, any other ".." is kept
RECURSIVE CleanStack(_, _, _)
CleanStack(comps, stack, rooted) ==
    IF comps = <<>> THEN stack
    ELSE LET c == Head(comps)
         IN  IF c = ".."
             THEN IF Len(stack) > 0 /\ stack[Len(stack)] # ".."
                  THEN CleanStack(Tail(comps), SubSeq(stack, 1, Len(stack) - 1), rooted)
                  ELSE IF rooted
                  THEN CleanStack(Tail(comps), stack, rooted)
                  ELSE CleanStack(Tail(comps), Append(stack, c), rooted)
             ELSE CleanStack(Tail(comps), Append(stack, c), rooted)

\* path.Clean of a non-empty path: rooted says that it starts with a slash
CleanRooted(p, rooted) ==
    (IF rooted THEN "/" ELSE "") \o
        JoinSlash(CleanStack(SelectSeq(Components(p), LAMBDA c : c # "" /\ c # "."), <<>>, rooted))

NonEmpty(out) == IF out = "" THEN "." ELSE out

\* path.Clean
Clean(p) == IF p = "" THEN "." ELSE NonEmpty(CleanRooted(p, Char(p, 1) = "/"))

\* path.Join of two elements: empty elements are ignored, the result is cleaned,
\* and joining nothing but empty elements gives ""
Join(a, b) ==
    IF a = "" /\ b = "" THEN ""
    ELSE Clean(IF a = "" THEN b ELSE IF b = "" THEN a ELSE a \o "/" \o b)

\* path.Dir
Dir(p) == Clean(SubSeq(p, 1, LastIndex(p, "/")))

RECURSIVE StripSlashes(_)
StripSlashes(p) ==
    IF Len(p) > 0 /\ HasSuffix(p, "/") THEN StripSlashes(SubSeq(p, 1, Len(p) - 1)) ELSE p

\* path.Base of a non-empty path without trailing slashes
BaseOf(q) == IF Drop(q, LastIndex(q, "/")) = "" THEN "/" ELSE Drop(q, LastIndex(q, "/"))

\* path.Base
Base(p) == IF p = "" THEN "." ELSE BaseOf(StripSlashes(p))

(***************************************************************************)
(* State.                                                                  *)
(*   r      the Resolver value the call is made on                         *)
(*   disk   what os.Stat sees: regular files, directories, directories     *)
(*          that deny search permission, and paths whose stat fails with   *)
(*          an I/O error                                                   *)
(*   oswd   what os.Getwd returns ("" when it fails)                       *)
(*   env    the environment variables SCRIPTHAUS_HOME and HOME             *)
(*   pc     "idle" before a call, then the name of the function called     *)
(*   arg    the argument of the call                                       *)
(*   rtnPb, rtnErr   what ResolvePlaybook returned: <<>> is the nil        *)
(*          pointer, <<pb>> a pointer to pb                                *)
(*   rtnSplit        what SplitScriptName returned                         *)
(*   md     the parsed Markdown document given to ParseCommands            *)
(*   rtnDefs, rtnWarnings   what ParseCommands returned                    *)
(*   cdef   the CommandDef whose directives are processed                  *)
(*   osUser what user.Current returns: <<>> is nil, <<u>> a user           *)
(*   ncalls the number of processDirectives calls made on cdef             *)
(*   addOpts   the options parseAddOpts made of the "add" command line     *)
(*   stdin  what reading standard input gives: <<>> is a read error,       *)
(*          <<text>> the text read                                         *)
(*   canAppend the playbook file can be opened for appending               *)
(*   printed   the texts the add command printed, in order                 *)
(*   appended  the text the add command appended to the playbook file      *)
(*   rtnCode   the exit code the add command returned                      *)
(*   breakIdxs   the value of the local breakIdx of ParseCommands after     *)
(*          each top-level node of the document                            *)
(*   walk   a findScRootDir call in progress: its arguments, its loop      *)
(*          variable curDir and the directories it has probed so far       *)
(*   rtnRoot   what findScRootDir returned                                 *)
(*   inDir  a resolvePlaybookInDir call in progress: its arguments, its    *)
(*          locals fullPath and finfo, and the paths it has stat-ed so far *)
(*   rtnFile   what resolvePlaybookInDir returned                          *)
(*   rtnPrefix what FindPrefixDir returned                                 *)
(*   scanText  the text given to ExtractRawDirectives                      *)
(*   rtnDirectives   what ExtractRawDirectives returned                    *)
(***************************************************************************)
VARIABLES r, disk, oswd, env, pc, arg, rtnPb, rtnErr, rtnSplit,
          md, rtnDefs, rtnWarnings, breakIdxs, cdef, osUser, ncalls,
          addOpts, stdin, canAppend, printed, appended, rtnCode, walk, rtnRoot,
          inDir, rtnFile, rtnPrefix, scanText, rtnDirectives

\* the state of the command extractor
parserVars == <<md, rtnDefs, rtnWarnings, breakIdxs>>

\* the state of directive processing
directiveVars == <<cdef, osUser, ncalls>>

\* the state of the add command
addVars == <<addOpts, stdin, canAppend, printed, appended, rtnCode>>

\* the state of a findScRootDir call
rootVars == <<walk, rtnRoot>>

\* the state of the resolvePlaybookInDir and FindPrefixDir calls
inDirVars == <<inDir, rtnFile, rtnPrefix>>

\* the state of the directive scanner
scanVars == <<scanText, rtnDirectives>>

vars == <<r, disk, oswd, env, pc, arg, rtnPb, rtnErr, rtnSplit, parserVars, directiveVars,
          addVars, rootVars, inDirVars, scanVars>>

DefaultScFile == "scripthaus.md"

\* the error values of a stat probe
ErrNil == "nil"
ErrNotExist == "fs.ErrNotExist"
ErrPermission == "fs.ErrPermission"
ErrOther == "EIO"

\* an error value: the message that was formatted, the user-given name and the
\* path the message shows, and the error it wraps (or is)
MkErr(kind, name, path, cause) == [kind |-> kind, name |-> name, path |-> path, cause |-> cause]

NilErr == MkErr("nil", "", "", ErrNil)

\* an error of os.Stat or os.Getwd handed on as it is
RawErr(errno) == MkErr(errno, "", "", errno)

\* what os.Stat answers for the absolute path full ("" when there is none)
osStatAt(full) ==
    IF full = "" THEN [IsDir |-> FALSE, err |-> ErrNotExist]
    ELSE IF \E d \in disk.denied : HasPrefix(full, IF d = "/" THEN d ELSE d \o "/")
    THEN [IsDir |-> FALSE, err |-> ErrPermission]
    ELSE IF full \in disk.broken THEN [IsDir |-> FALSE, err |-> ErrOther]
    ELSE IF full \in disk.files THEN [IsDir |-> FALSE, err |-> ErrNil]
    ELSE IF full \in disk.dirs THEN [IsDir |-> TRUE, err |-> ErrNil]
    ELSE [IsDir |-> FALSE, err |-> ErrNotExist]

\* os.Stat: a relative name is taken from the process' working directory
osStat(fileName) ==
    osStatAt(IF HasPrefix(fileName, "/") THEN Clean(fileName)
             ELSE IF oswd = "" THEN "" ELSE Join(oswd, fileName))

\* the lookups of Resolver.statInfo in test mode: f1 is the absolute name, f2 is
\* f1 without its trailing slash
testStatAt(f1, f2) ==
    IF f1 \in r.TestFiles THEN [IsDir |-> FALSE, err |-> ErrNil]
    ELSE IF f2 \in r.TestDirs THEN [IsDir |-> TRUE, err |-> ErrNil]
    ELSE IF \E badDir \in r.TestBadPermDirs : f2 = badDir \/ Join(badDir, Base(f2)) = f2
    THEN [IsDir |-> FALSE, err |-> ErrPermission]
    ELSE [IsDir |-> FALSE, err |-> ErrNotExist]

\* Resolver.statInfo in test mode, from the absolute name on
testStat(f1) ==
    testStatAt(f1, IF Len(f1) > 1 /\ HasSuffix(f1, "/") THEN SubSeq(f1, 1, Len(f1) - 1) ELSE f1)

\* Resolver.statInfo: (resolveStatInfo, error)
statInfo(fileName) ==
    IF ~r.TestMode THEN osStat(fileName)
    ELSE testStat(IF ~HasPrefix(fileName, "/") THEN Join(r.Cwd, fileName) ELSE fileName)

\* Resolver.Getwd
Getwd ==
    IF r.Cwd # "" THEN [dir |-> r.Cwd, err |-> NilErr]
    ELSE IF oswd # "" THEN [dir |-> oswd, err |-> NilErr]
    ELSE [dir |-> "", err |-> RawErr(ErrNotExist)]

\* GetScHomeDir looking at HOME before SCRIPTHAUS_HOME
GetScHomeDir_HomeFirst ==
    IF env.HOME = ""
    THEN IF env.SCRIPTHAUS_HOME = ""
         THEN [dir |-> "", err |-> MkErr("SCRIPTHAUS_HOME and HOME not set", "", "", ErrNil)]
         ELSE [dir |-> env.SCRIPTHAUS_HOME, err |-> NilErr]
    ELSE [dir |-> Join(env.HOME, "scripthaus"), err |-> NilErr]

\* GetScHomeDir (the package function, from the environment)
GetScHomeDir ==
    IF env.SCRIPTHAUS_HOME = ""
    THEN IF env.HOME = ""
         THEN [dir |-> "", err |-> MkErr("SCRIPTHAUS_HOME and HOME not set", "", "", ErrNil)]
         ELSE [dir |-> Join(env.HOME, "scripthaus"), err |-> NilErr]
    ELSE [dir |-> env.SCRIPTHAUS_HOME, err |-> NilErr]

\* Resolver.GetScHomeDir
ResolverGetScHomeDir ==
    IF r.ScHomeDir # "" THEN [dir |-> r.ScHomeDir, err |-> NilErr] ELSE GetScHomeDir

\* Resolver.tryFindFile after its stat, st: (found, error)
\* tryFindFileOf that reports a permission error whatever ignorePermissionErr says
tryFindFileOf_PermissionFatal(st, ignorePermissionErr) ==
    IF st.err = ErrNotExist THEN [found |-> FALSE, err |-> ErrNil]
    ELSE IF st.IsDir THEN [found |-> FALSE, err |-> ErrNil]
    ELSE [found |-> TRUE, err |-> st.err]

tryFindFileOf(st, ignorePermissionErr) ==
    IF st.err = ErrNotExist THEN [found |-> FALSE, err |-> ErrNil]
    ELSE IF ignorePermissionErr /\ st.err = ErrPermission
    THEN [found |-> FALSE, err |-> ErrNil]
    ELSE IF st.IsDir THEN [found |-> FALSE, err |-> ErrNil]
    ELSE [found |-> TRUE, err |-> st.err]

\* Resolver.tryFindFile: (found, error)
tryFindFile(fileName, fileType, ignorePermissionErr) ==
    tryFindFileOf(statInfo(fileName), ignorePermissionErr)

\* parentDir without the stop at "/": the parent of "/" is "/"
parentDir_NoRootStop(dirName) ==
    IF dirName = "" \/ ~HasPrefix(dirName, "/") THEN ""
    ELSE Dir(IF Len(dirName) > 1 /\ HasSuffix(dirName, "/")
             THEN SubSeq(dirName, 1, Len(dirName) - 1) ELSE dirName)

\* parentDir: "" when there are no more parents
parentDir(dirName) ==
    IF dirName = "" \/ dirName = "/" \/ ~HasPrefix(dirName, "/") THEN ""
    ELSE Dir(IF Len(dirName) > 1 /\ HasSuffix(dirName, "/")
             THEN SubSeq(dirName, 1, Len(dirName) - 1) ELSE dirName)

\* the for loop of Resolver.findScRootDir (findScRootLoop), and one iteration of
\* it after its probe f of curDir (findScRootStep)
RECURSIVE findScRootLoop(_), findScRootStep(_, _)
findScRootStep(curDir, f) ==
    IF f.err # ErrNil THEN [dir |-> "", err |-> f.err]
    ELSE IF f.found THEN [dir |-> curDir, err |-> ErrNil]
    ELSE findScRootLoop(parentDir(curDir))

findScRootLoop(curDir) ==
    IF curDir = "" THEN [dir |-> "", err |-> ErrNotExist]
    ELSE findScRootStep(curDir, tryFindFile(Join(curDir, DefaultScFile), "playbook", TRUE))

\* findScRootDir that starts at curDir whatever allowCurrent says
findScRootDir_AlwaysCurrent(curDir, allowCurrent) == findScRootLoop(curDir)

\* Resolver.findScRootDir
findScRootDir(curDir, allowCurrent) ==
    findScRootLoop(IF ~allowCurrent THEN parentDir(curDir) ELSE curDir)

\* resolveResult with the not-exist error swallowed: no file and no error
resolveResult_SwallowNotExist(displayName, fullPath, finfo) ==
    IF finfo.err # ErrNil
    THEN IF finfo.err = ErrNotExist
         THEN [file |-> "", err |-> NilErr]
         ELSE IF finfo.err = ErrPermission
         THEN [file |-> "", err |-> MkErr("permission error", displayName, fullPath, finfo.err)]
         ELSE [file |-> "", err |-> MkErr("stat error", displayName, fullPath, finfo.err)]
    ELSE IF finfo.IsDir
    THEN [file |-> "", err |-> MkErr("is a directory not a file", displayName, fullPath, ErrNil)]
    ELSE [file |-> fullPath, err |-> NilErr]

\* the end of Resolver.resolvePlaybookInDir, after the last stat, finfo, of fullPath
\* resolveResult that lets a directory pass
resolveResult_DirectoryPasses(displayName, fullPath, finfo) ==
    IF finfo.err # ErrNil
    THEN [file |-> "", err |-> MkErr("stat error", displayName, fullPath, finfo.err)]
    ELSE [file |-> fullPath, err |-> NilErr]

resolveResult(displayName, fullPath, finfo) ==
    IF finfo.err # ErrNil
    THEN IF finfo.err = ErrNotExist
         THEN [file |-> "", err |-> MkErr("playbook not found", displayName, fullPath, ErrNil)]
         ELSE IF finfo.err = ErrPermission
         THEN [file |-> "", err |-> MkErr("permission error", displayName, fullPath, finfo.err)]
         ELSE [file |-> "", err |-> MkErr("stat error", displayName, fullPath, finfo.err)]
    ELSE IF finfo.IsDir
    THEN [file |-> "", err |-> MkErr("is a directory not a file", displayName, fullPath, ErrNil)]
    ELSE [file |-> fullPath, err |-> NilErr]

\* Resolver.resolvePlaybookInDir from the stat of fullPath on
resolveStat(displayName, fullPath) == resolveResult(displayName, fullPath, statInfo(fullPath))

\* Resolver.resolvePlaybookInDir after the first stat, st1, of path1: a directory
\* is tried again with the default file name inside it
resolveRetry(displayName, path1, st1) ==
    IF st1.err = ErrNil /\ st1.IsDir
    THEN resolveStat(displayName, Join(path1, DefaultScFile))
    ELSE resolveResult(displayName, path1, st1)

\* Resolver.resolvePlaybookInDir from the first stat on
resolveFirst(displayName, path1) == resolveRetry(displayName, path1, statInfo(path1))

\* Resolver.resolvePlaybookInDir: (fullPath, error)
resolvePlaybookInDir(origName, curDir, playbookName) ==
    resolveFirst(IF origName = "" THEN "<default>" ELSE origName,
                 Join(curDir, IF playbookName = "" THEN DefaultScFile
                              ELSE IF HasSuffix(playbookName, "/")
                              THEN playbookName \o DefaultScFile
                              ELSE playbookName))

\* the for loop of Resolver.FindPrefixDir from iteration depth on (FindPrefixLoop),
\* and one iteration of it after its walk rt (FindPrefixStep)
RECURSIVE FindPrefixLoop(_, _, _), FindPrefixStep(_, _, _, _)
FindPrefixStep(prefix, depth, lastCurDir, rt) ==
    IF rt.err = ErrNotExist
    THEN IF depth = 0
         THEN [dir |-> "", err |-> MkErr("cannot find scripthaus root in any parent directory above", "", lastCurDir, ErrNil)]
         ELSE [dir |-> "", err |-> MkErr("cannot find scripthaus root above", "", lastCurDir, ErrNil)]
    ELSE IF rt.err # ErrNil THEN [dir |-> "", err |-> RawErr(rt.err)]
    ELSE FindPrefixLoop(prefix, depth + 1, rt.dir)

\* FindPrefixLoop without the test of the character
FindPrefixLoop_AnyCharacter(prefix, depth, curDir) ==
    IF depth >= Len(prefix) THEN [dir |-> curDir, err |-> NilErr]
    ELSE FindPrefixStep(prefix, depth, curDir, findScRootDir(curDir, depth = 0))

FindPrefixLoop(prefix, depth, curDir) ==
    IF depth >= Len(prefix) THEN [dir |-> curDir, err |-> NilErr]
    ELSE IF Char(prefix, depth + 1) # "."
    THEN [dir |-> "", err |-> MkErr("invalid prefix character", "", Char(prefix, depth + 1), ErrNil)]
    ELSE FindPrefixStep(prefix, depth, curDir, findScRootDir(curDir, depth = 0))

\* Resolver.FindPrefixDir after its call of Getwd, wd
FindPrefixFrom(prefix, wd) ==
    IF wd.err # NilErr THEN [dir |-> "", err |-> wd.err]
    ELSE FindPrefixLoop(prefix, 0, wd.dir)

\* Resolver.FindPrefixDir: (dir, error)
FindPrefixDir(prefix) ==
    IF prefix = ""
    THEN [dir |-> "", err |-> MkErr("invalid empty prefix dir passed to FindPrefixDir", "", "", ErrNil)]
    ELSE IF prefix = "^" THEN ResolverGetScHomeDir
    ELSE FindPrefixFrom(prefix, Getwd)

\* the number of "." characters s starts with
RECURSIVE LeadingDots(_)
LeadingDots(s) == IF HasPrefix(s, ".") THEN 1 + LeadingDots(Drop(s, 1)) ELSE 0

\* PrefixMatch for the expression without its last group, "^(\^|[.]*)"
PrefixMatch_NoLookahead(s, k) ==
    IF HasPrefix(s, "^") THEN <<"^">> ELSE <<SubSeq(s, 1, k)>>

\* a match of "^(\^|[.]*)(?:[a-zA-Z_]|$)" on s, which starts with k dots
PrefixMatch(s, k) ==
    IF HasPrefix(s, "^") /\ (Len(s) = 1 \/ Char(s, 2) \in LetterChars) THEN <<"^">>
    ELSE IF Len(s) = k \/ Char(s, k + 1) \in LetterChars THEN <<SubSeq(s, 1, k)>>
    ELSE <<>>

\* base.PlaybookPrefixRe.FindStringSubmatch: <<>> when there is no match, else
\* <<the text of group 1>>
PlaybookPrefixRe(s) == PrefixMatch(s, LeadingDots(s))

\* a match of "^([.]+)[a-zA-Z_]" on s, which starts with k dots
DotMatch(s, k) ==
    IF k >= 1 /\ Len(s) > k /\ Char(s, k + 1) \in LetterChars THEN <<SubSeq(s, 1, k)>>
    ELSE <<>>

\* dotPrefixRe.FindStringSubmatch
dotPrefixRe(s) == DotMatch(s, LeadingDots(s))

\* a ResolvedPlaybook value
MkPlaybook(orig, canon, file, projectDir) ==
    [OrigName |-> orig, CanonicalName |-> canon, ResolvedFile |-> file,
     ProjectDir |-> projectDir, ProjectName |-> ""]

\* ResolveBareFound that returns the name as it was given, not the joined path
ResolveBareFound_NameAsGiven(playbookName, fullPath, f) ==
    IF f.err # ErrNil THEN [pb |-> <<>>, err |-> RawErr(f.err)]
    ELSE IF ~f.found
    THEN [pb |-> <<>>, err |-> MkErr("playbook not found", playbookName, fullPath, ErrNil)]
    ELSE [pb |-> <<MkPlaybook(playbookName, playbookName, playbookName, "")>>, err |-> NilErr]

\* Resolver.ResolvePlaybook, a name without a prefix: after tryFindFile, f
ResolveBareFound(playbookName, fullPath, f) ==
    IF f.err # ErrNil THEN [pb |-> <<>>, err |-> RawErr(f.err)]
    ELSE IF ~f.found
    THEN [pb |-> <<>>, err |-> MkErr("playbook not found", playbookName, fullPath, ErrNil)]
    ELSE [pb |-> <<MkPlaybook(playbookName, fullPath, fullPath, "")>>, err |-> NilErr]

\* Resolver.ResolvePlaybook, a name without a prefix: from tryFindFile on
ResolveBareAt(playbookName, fullPath) ==
    ResolveBareFound(playbookName, fullPath, tryFindFile(fullPath, "playbook", FALSE))

\* Resolver.ResolvePlaybook, a name without a prefix: after Getwd, wd
ResolveBareIn(playbookName, wd) ==
    IF wd.err # NilErr
    THEN [pb |-> <<>>, err |-> MkErr("cannot get current working directory", "", "", wd.err.cause)]
    ELSE ResolveBareAt(playbookName, Join(wd.dir, playbookName))

\* Resolver.ResolvePlaybook, a name without a prefix
ResolveBare(playbookName) == ResolveBareIn(playbookName, Getwd)

\* ResolvePrefixedFile that sets ProjectDir for the prefix "^" too
ResolvePrefixedFile_AlwaysProjectDir(playbookName, prefix, noPrefixName, dirName, rf) ==
    IF rf.err # NilErr THEN [pb |-> <<>>, err |-> rf.err]
    ELSE IF prefix = "^"
    THEN [pb |-> <<MkPlaybook(playbookName, playbookName, rf.file, dirName)>>, err |-> NilErr]
    ELSE [pb |-> <<MkPlaybook(playbookName, "." \o noPrefixName, rf.file, dirName)>>, err |-> NilErr]

\* ResolvePrefixedFile with a CanonicalName that has lost its dot
ResolvePrefixedFile_NoDot(playbookName, prefix, noPrefixName, dirName, rf) ==
    IF rf.err # NilErr THEN [pb |-> <<>>, err |-> rf.err]
    ELSE IF prefix = "^"
    THEN [pb |-> <<MkPlaybook(playbookName, playbookName, rf.file, "")>>, err |-> NilErr]
    ELSE [pb |-> <<MkPlaybook(playbookName, noPrefixName, rf.file, dirName)>>, err |-> NilErr]

\* Resolver.ResolvePlaybook, a prefix "^" or dots: after resolvePlaybookInDir, rf
ResolvePrefixedFile(playbookName, prefix, noPrefixName, dirName, rf) ==
    IF rf.err # NilErr THEN [pb |-> <<>>, err |-> rf.err]
    ELSE IF prefix = "^"
    THEN [pb |-> <<MkPlaybook(playbookName, playbookName, rf.file, "")>>, err |-> NilErr]
    ELSE [pb |-> <<MkPlaybook(playbookName, "." \o noPrefixName, rf.file, dirName)>>, err |-> NilErr]

\* Resolver.ResolvePlaybook, a prefix "^" or dots: from noPrefixName on
ResolvePrefixedName(playbookName, prefix, noPrefixName, dirName) ==
    ResolvePrefixedFile(playbookName, prefix, noPrefixName, dirName,
                        resolvePlaybookInDir(playbookName, dirName, noPrefixName))

\* Resolver.ResolvePlaybook, a prefix "^" or dots: after FindPrefixDir, pd
ResolvePrefixedIn(playbookName, prefix, pd) ==
    IF pd.err # NilErr
    THEN [pb |-> <<>>, err |-> MkErr("cannot resolve directory for playbook", playbookName, "", pd.err.kind)]
    ELSE ResolvePrefixedName(playbookName, prefix, Drop(playbookName, Len(prefix)), pd.dir)

\* Resolver.ResolvePlaybook, a prefix "^" or dots
ResolvePrefixed(playbookName, prefix) ==
    ResolvePrefixedIn(playbookName, prefix, FindPrefixDir(prefix))

\* Resolver.ResolvePlaybook, a path: after resolvePlaybookInDir, rf
ResolvePathFile(playbookName, rf) ==
    IF rf.err # NilErr THEN [pb |-> <<>>, err |-> rf.err]
    ELSE [pb |-> <<MkPlaybook(playbookName, rf.file, rf.file, "")>>, err |-> NilErr]

\* Resolver.ResolvePlaybook, a path: from fullPath on
ResolvePathAt(playbookName, fullPath) ==
    ResolvePathFile(playbookName,
                    IF HasSuffix(fullPath, "/")
                    THEN resolvePlaybookInDir(playbookName, fullPath, "")
                    ELSE resolvePlaybookInDir(playbookName, Dir(fullPath), Base(fullPath)))

\* Resolver.ResolvePlaybook, a relative path: after Getwd, wd
ResolvePathIn(playbookName, wd) ==
    IF wd.err # NilErr
    THEN [pb |-> <<>>, err |-> MkErr("cannot get current working directory", "", "", wd.err.cause)]
    ELSE ResolvePathAt(playbookName, Clean(Join(wd.dir, playbookName)))

\* Resolver.ResolvePlaybook, an absolute or relative path
ResolvePath(playbookName) ==
    IF HasPrefix(playbookName, "/") THEN ResolvePathAt(playbookName, playbookName)
    ELSE ResolvePathIn(playbookName, Getwd)

\* Resolver.ResolvePlaybook after the match, prefixMatch, of PlaybookPrefixRe
ResolveMatched(playbookName, prefixMatch) ==
    IF prefixMatch # <<>>
    THEN IF prefixMatch[1] = "" THEN ResolveBare(playbookName)
         ELSE ResolvePrefixed(playbookName, prefixMatch[1])
    ELSE IF HasPrefix(playbookName, "@")
    THEN [pb |-> <<>>, err |-> MkErr("@-prefix not supported", playbookName, "", ErrNil)]
    ELSE IF HasPrefix(playbookName, "./") \/ HasPrefix(playbookName, "/")
            \/ HasPrefix(playbookName, "../")
    THEN ResolvePath(playbookName)
    ELSE [pb |-> <<>>, err |-> MkErr("invalid playbook name", playbookName, "", ErrNil)]

\* Resolver.ResolvePlaybook: (*ResolvedPlaybook, error)
ResolvePlaybook(playbookName) ==
    IF playbookName = "-"
    THEN [pb |-> <<MkPlaybook("-", "-", "-", "")>>, err |-> NilErr]
    ELSE ResolveMatched(playbookName, PlaybookPrefixRe(playbookName))

\* SplitAt without the rules for a ".md" suffix and for a leading "."
SplitAt_NoMdRule(scriptName, i, m) ==
    IF i # 0
    THEN [playbook |-> SubSeq(scriptName, 1, i - 1), script |-> Drop(scriptName, i + 1), err |-> NilErr]
    ELSE IF HasPrefix(scriptName, "^")
    THEN [playbook |-> "^", script |-> Drop(scriptName, 1), err |-> NilErr]
    ELSE IF m # <<>>
    THEN [playbook |-> m[1], script |-> Drop(scriptName, Len(m[1])), err |-> NilErr]
    ELSE [playbook |-> "", script |-> scriptName, err |-> NilErr]

\* SplitScriptName after strings.Index, i, and the match, m, of dotPrefixRe
SplitAt(scriptName, i, m) ==
    IF i # 0
    THEN [playbook |-> SubSeq(scriptName, 1, i - 1), script |-> Drop(scriptName, i + 1), err |-> NilErr]
    ELSE IF HasSuffix(scriptName, ".md")
    THEN [playbook |-> scriptName, script |-> "", err |-> NilErr]
    ELSE IF HasPrefix(scriptName, "^")
    THEN [playbook |-> "^", script |-> Drop(scriptName, 1), err |-> NilErr]
    ELSE IF m # <<>>
    THEN [playbook |-> m[1], script |-> Drop(scriptName, Len(m[1])), err |-> NilErr]
    ELSE IF HasPrefix(scriptName, ".")
    THEN [playbook |-> scriptName, script |-> "", err |-> NilErr]
    ELSE [playbook |-> "", script |-> scriptName, err |-> NilErr]

\* SplitScriptName: (playbook-name, playbook-script, error)
SplitScriptName(scriptName) == SplitAt(scriptName, Index(scriptName, "::"), dotPrefixRe(scriptName))

(***************************************************************************)
(* package mdparser: the directive scanner                                 *)
(***************************************************************************)
\* the white space of \s and of strings.TrimSpace
SpaceChars == {" ", "\t", "\n", "\r"}

\* the length of the run of white space, or of anything else, that starts at s[i]
RECURSIVE SpaceRun(_, _)
SpaceRun(s, i) ==
    IF i > Len(s) \/ Char(s, i) \notin SpaceChars THEN 0 ELSE 1 + SpaceRun(s, i + 1)

RECURSIVE NonSpaceRun(_, _)
NonSpaceRun(s, i) ==
    IF i > Len(s) \/ Char(s, i) \in SpaceChars THEN 0 ELSE 1 + NonSpaceRun(s, i + 1)

\* the length of the run of white space that ends at s[i]
RECURSIVE SpaceRunBack(_, _)
SpaceRunBack(s, i) ==
    IF i < 1 \/ Char(s, i) \notin SpaceChars THEN 0 ELSE 1 + SpaceRunBack(s, i - 1)

\* strings.TrimSpace
TrimLeft(s) == Drop(s, SpaceRun(s, 1))

TrimSpace(s) == TrimLeft(SubSeq(s, 1, Len(s) - SpaceRunBack(s, Len(s))))

\* strings.Split(s, sep) for a separator of one character
RECURSIVE SplitFrom(_, _, _)
SplitFrom(s, sep, i) ==
    IF i = 0 THEN <<s>>
    ELSE <<SubSeq(s, 1, i - 1)>> \o SplitFrom(Drop(s, i), sep, Index(Drop(s, i), sep))

StringsSplit(s, sep) == SplitFrom(s, sep, Index(s, sep))

\* directiveRe = "^(?:#|//)\s+@scripthaus\s+(\S+)(?:\s+(.*))?" matched on a line:
\* <<>> for no match, else <<m[1], m[2]>>. q is the number of characters
\* matched so far, w and n the lengths of the runs that follow them.
directiveData(line, q, n) ==
    IF n = 0 THEN <<>>
    ELSE <<SubSeq(line, q + 1, q + n), Drop(line, q + n + SpaceRun(line, q + n + 1))>>

directiveType(line, q, w) ==
    IF w = 0 THEN <<>> ELSE directiveData(line, q + w, NonSpaceRun(line, q + w + 1))

directiveWord(line, q, w) ==
    IF w = 0 \/ ~HasPrefix(Drop(line, q + w), "@scripthaus") THEN <<>>
    ELSE directiveType(line, q + w + 11, SpaceRun(line, q + w + 12))

directiveMarker(line, q) ==
    IF q = 0 THEN <<>> ELSE directiveWord(line, q, SpaceRun(line, q + 1))

directiveRe(line) ==
    directiveMarker(line, IF HasPrefix(line, "#") THEN 1
                          ELSE IF HasPrefix(line, "//") THEN 2 ELSE 0)

\* commanddef.RawDirective
MkRawDirective(type, data, lineNo) == [Type |-> type, Data |-> data, LineNo |-> lineNo]

\* ExtractRawDirectives: the body of the loop for line idx (0-based) with match m
ExtractLine(m, idx) ==
    IF m = <<>> THEN <<>> ELSE <<MkRawDirective(m[1], TrimSpace(m[2]), idx + 1)>>

\* ExtractLines with each new directive put in front of the list
RECURSIVE ExtractLines_Prepend(_, _)
ExtractLines_Prepend(lines, idx) ==
    IF idx >= Len(lines) THEN <<>>
    ELSE ExtractLines_Prepend(lines, idx + 1) \o ExtractLine(directiveRe(lines[idx + 1]), idx)

RECURSIVE ExtractLines(_, _)
ExtractLines(lines, idx) ==
    IF idx >= Len(lines) THEN <<>>
    ELSE ExtractLine(directiveRe(lines[idx + 1]), idx) \o ExtractLines(lines, idx + 1)

\* ExtractRawDirectives
ExtractRawDirectives(codeText) == ExtractLines(StringsSplit(codeText, "\n"), 0)

\* hasDashPrefix = "^\s+-\s+(.*)" matched on s: <<>> for no match, else <<m[1]>>
dashRest(s, q, w) == IF w = 0 THEN <<>> ELSE <<Drop(s, q + w)>>

dashMark(s, w) ==
    IF w = 0 \/ Char(s, w + 1) # "-" THEN <<>> ELSE dashRest(s, w + 1, SpaceRun(s, w + 2))

hasDashPrefix(s) == dashMark(s, SpaceRun(s, 1))

\* GetCommandDirective for the data of the first "command" directive
commandShortDesc(m) == IF m = <<>> THEN "" ELSE m[1]

CommandOfData(data, firstSpace) ==
    IF firstSpace = 0 THEN <<data, "">>
    ELSE <<SubSeq(data, 1, firstSpace - 1),
           commandShortDesc(hasDashPrefix(Drop(data, firstSpace - 1)))>>

\* GetCommandDirective that takes the first directive whatever its type
GetCommandDirective_AnyType(dirs) ==
    IF dirs = <<>> THEN <<"", "">>
    ELSE CommandOfData(Head(dirs).Data, Index(Head(dirs).Data, " "))

\* GetCommandDirective: <<commandName, commandShortDesc>>
RECURSIVE GetCommandDirective(_)
GetCommandDirective(dirs) ==
    IF dirs = <<>> THEN <<"", "">>
    ELSE IF Head(dirs).Type # "command" THEN GetCommandDirective(Tail(dirs))
    ELSE CommandOfData(Head(dirs).Data, Index(Head(dirs).Data, " "))

(***************************************************************************)
(* package mdparser: the command extractor. A parsed document is the       *)
(* source text and the list of its top-level nodes; a node has a kind, a   *)
(* heading Level, an Info segment (<<>> for nil) and the segments of its   *)
(* Lines. A segment [Start, Stop] is the Go slice mdSource[Start:Stop].    *)
(***************************************************************************)
Slice(mdSource, start, stop) == SubSeq(mdSource, start + 1, stop)

\* findLineNo, 1-indexed
findLineNo(pos, mdSource) == Cardinality({i \in 1..pos : Char(mdSource, i) = "\n"}) + 1

\* findLinePos: the position of the newline that ends line lineNo - 1, the
\* length of the source when it has no such line
findLinePosOf(hits, mdSource) == IF hits = {} THEN Len(mdSource) ELSE Smallest(hits) - 1

findLinePos(lineNo, mdSource) ==
    IF lineNo <= 1 THEN 0
    ELSE findLinePosOf({j \in 1..Len(mdSource) :
                           Char(mdSource, j) = "\n" /\ findLineNo(j, mdSource) = lineNo},
                       mdSource)

\* mdIndexBackToNewLine: the position after the last newline at or before mdIdx
mdIndexBackToNewLine(mdIdx, mdSource) ==
    Largest({j \in 1..(mdIdx + 1) : Char(mdSource, j) = "\n"})

\* strings.SplitN(field, "=", 2) and the assignment to fields, i the index of "="
infoField(field, i) ==
    IF i = 0 THEN field :> "1" ELSE SubSeq(field, 1, i - 1) :> Drop(field, i)

\* parseInfo: the fields of split[1:], a later field replacing an earlier one
RECURSIVE infoFields(_, _)
infoFields(split, n) ==
    IF n <= 1 THEN <<>>
    ELSE infoField(split[n], Index(split[n], "=")) @@ infoFields(split, n - 1)

\* parseInfo: <<language, fields>>
parseInfoOf(split) == <<split[1], infoFields(split, Len(split))>>

parseInfo(info) == parseInfoOf(StringsSplit(info, " "))

RECURSIVE textFromLines(_, _)
textFromLines(mdSource, lines) ==
    IF lines = <<>> THEN ""
    ELSE Slice(mdSource, Head(lines).Start, Head(lines).Stop) \o textFromLines(mdSource, Tail(lines))

\* rawCodeText
rawCodeSlice(startPos, endPos, mdSource) == Slice(mdSource, startPos, endPos)

rawCodeText(name, block, mdSource) ==
    rawCodeSlice(mdIndexBackToNewLine(block.Info[1].Start, mdSource),
                 findLinePos(findLineNo(IF block.Lines = <<>> THEN block.Info[1].Start
                                        ELSE block.Lines[Len(block.Lines)].Start, mdSource) + 2,
                             mdSource),
                 mdSource)

\* blockStartIndex: the position it returns
blockStartIndex(block, mdSource) ==
    IF block.Lines = <<>> THEN -1
    ELSE mdIndexBackToNewLine(block.Lines[1].Start, mdSource)

\* base.PlaybookScriptNameRe = "^[a-zA-Z_][a-zA-Z0-9_/-]*$"
DigitChars == {"0", "1", "2", "3", "4", "5", "6", "7", "8", "9"}

PlaybookScriptNameRe(name) ==
    /\ name # ""
    /\ Char(name, 1) \in LetterChars
    /\ \A i \in 2..Len(name) : Char(name, i) \in LetterChars \cup DigitChars \cup {"/", "-"}

\* IsValidScriptName
IsValidScriptName(name) == PlaybookScriptNameRe(name)

\* base.ValidScriptTypes and base.IsValidScriptType
ValidScriptTypes ==
    {"sh", "bash", "zsh", "tcsh", "ksh", "fish", "python", "python2", "python3", "js", "node"}

IsValidScriptType(scriptType) == scriptType \in ValidScriptTypes

\* the warnings of ParseCommands
NoCommandWarning(lineNo) ==
    [msg |-> "code block has scripthaus directives, but no 'command' directive",
     info |-> "", lang |-> "", line |-> lineNo]

InvalidLangWarning(infoText, lang, lineNo) ==
    [msg |-> "scripthaus code block found with invalid language",
     info |-> infoText, lang |-> lang, line |-> lineNo]

\* the CommandDef ParseCommands builds for a code block
NewCommandDef(playbook, codeNode, mdSource, breakIdx, scriptText, rawDirs, cmd, info, cbStartIdx) ==
    [Playbook |-> playbook,
     Name |-> cmd[1],
     ShortText |-> cmd[2],
     Lang |-> info[1],
     ScriptText |-> scriptText,
     Info |-> info[2],
     RawDirectives |-> rawDirs,
     StartIndex |-> IF breakIdx = -1 THEN cbStartIdx ELSE breakIdx,
     StartLineNo |-> findLineNo(cbStartIdx, mdSource),
     HelpText |-> IF breakIdx = -1 THEN "" ELSE TrimSpace(Slice(mdSource, breakIdx, cbStartIdx)),
     RawCodeText |-> TrimSpace(rawCodeText(cmd[1], codeNode, mdSource)),
     DirectivesProcessed |-> FALSE,
     ChangeDir |-> "",
     NoLog |-> FALSE,
     Warnings |-> <<>>]

\* ParseCommandBlock without the language check
ParseCommandBlock_AnyLang(st, playbook, codeNode, mdSource, lineNo, scriptText, rawDirs, cmd, infoText, info) ==
    [defs |-> Append(st.defs,
                     NewCommandDef(playbook, codeNode, mdSource, st.breakIdx, scriptText,
                                   rawDirs, cmd, info,
                                   mdIndexBackToNewLine(codeNode.Info[1].Start, mdSource))),
     warnings |-> st.warnings,
     breakIdx |-> -1]

\* ParseCommandBlock that leaves breakIdx as it is after a new CommandDef
ParseCommandBlock_KeepsHelp(st, playbook, codeNode, mdSource, lineNo, scriptText, rawDirs, cmd, infoText, info) ==
    IF ~IsValidScriptType(info[1])
    THEN [st EXCEPT !.warnings = Append(@, InvalidLangWarning(infoText, info[1], lineNo))]
    ELSE [st EXCEPT !.defs =
              Append(@, NewCommandDef(playbook, codeNode, mdSource, st.breakIdx, scriptText,
                                      rawDirs, cmd, info,
                                      mdIndexBackToNewLine(codeNode.Info[1].Start, mdSource)))]

\* ParseCommandBlock that resets breakIdx when it rejects the language
ParseCommandBlock_RejectResets(st, playbook, codeNode, mdSource, lineNo, scriptText, rawDirs, cmd, infoText, info) ==
    IF ~IsValidScriptType(info[1])
    THEN [st EXCEPT !.warnings = Append(@, InvalidLangWarning(infoText, info[1], lineNo)),
                    !.breakIdx = -1]
    ELSE [defs |-> Append(st.defs,
                          NewCommandDef(playbook, codeNode, mdSource, st.breakIdx, scriptText,
                                        rawDirs, cmd, info,
                                        mdIndexBackToNewLine(codeNode.Info[1].Start, mdSource))),
          warnings |-> st.warnings,
          breakIdx |-> -1]

\* ParseCommands, a code block with a command directive: the language check
\* and the new CommandDef
ParseCommandBlock(st, playbook, codeNode, mdSource, lineNo, scriptText, rawDirs, cmd, infoText, info) ==
    IF ~IsValidScriptType(info[1])
    THEN [st EXCEPT !.warnings = Append(@, InvalidLangWarning(infoText, info[1], lineNo))]
    ELSE [defs |-> Append(st.defs,
                          NewCommandDef(playbook, codeNode, mdSource, st.breakIdx, scriptText,
                                        rawDirs, cmd, info,
                                        mdIndexBackToNewLine(codeNode.Info[1].Start, mdSource))),
          warnings |-> st.warnings,
          breakIdx |-> -1]

ParseInfoText(st, playbook, codeNode, mdSource, lineNo, scriptText, rawDirs, cmd, infoText) ==
    ParseCommandBlock(st, playbook, codeNode, mdSource, lineNo, scriptText, rawDirs, cmd,
                      infoText, parseInfo(infoText))

\* ParseCommands, a code block with an info string: after GetCommandDirective, cmd
ParseNamedBlock(st, playbook, codeNode, mdSource, lineNo, scriptText, rawDirs, cmd) ==
    IF cmd[1] = ""
    THEN [defs |-> st.defs,
          warnings |-> IF Len(rawDirs) # 0 THEN Append(st.warnings, NoCommandWarning(lineNo))
                       ELSE st.warnings,
          breakIdx |-> -1]
    ELSE ParseInfoText(st, playbook, codeNode, mdSource, lineNo, scriptText, rawDirs, cmd,
                       Slice(mdSource, codeNode.Info[1].Start, codeNode.Info[1].Stop))

ParseDirectives(st, playbook, codeNode, mdSource, lineNo, scriptText, rawDirs) ==
    ParseNamedBlock(st, playbook, codeNode, mdSource, lineNo, scriptText, rawDirs,
                    GetCommandDirective(rawDirs))

ParseCodeBlock(st, playbook, codeNode, mdSource, lineNo, scriptText) ==
    ParseDirectives(st, playbook, codeNode, mdSource, lineNo, scriptText,
                    ExtractRawDirectives(scriptText))

\* ParseNode without the reset at a heading of level 1, 2 or 3
ParseNode_HeadingKeeps(st, playbook, node, mdSource) ==
    IF node.kind = "ThematicBreak" THEN [st EXCEPT !.breakIdx = -1]
    ELSE IF node.kind = "Heading" /\ node.Level = 4
    THEN [st EXCEPT !.breakIdx = blockStartIndex(node, mdSource)]
    ELSE IF node.kind = "FencedCodeBlock" /\ node.Info # <<>>
    THEN ParseCodeBlock(st, playbook, node, mdSource,
                        findLineNo(node.Info[1].Start, mdSource),
                        textFromLines(mdSource, node.Lines))
    ELSE IF st.breakIdx = -1
    THEN [st EXCEPT !.breakIdx = blockStartIndex(node, mdSource)]
    ELSE st

\* ParseCommands: the body of the loop over the children of the document;
\* st is defs, warnings and breakIdx
ParseNode(st, playbook, node, mdSource) ==
    IF node.kind = "ThematicBreak" THEN [st EXCEPT !.breakIdx = -1]
    ELSE IF node.kind = "Heading" /\ node.Level < 4 THEN [st EXCEPT !.breakIdx = -1]
    ELSE IF node.kind = "Heading" /\ node.Level = 4
    THEN [st EXCEPT !.breakIdx = blockStartIndex(node, mdSource)]
    ELSE IF node.kind = "FencedCodeBlock" /\ node.Info # <<>>
    THEN ParseCodeBlock(st, playbook, node, mdSource,
                        findLineNo(node.Info[1].Start, mdSource),
                        textFromLines(mdSource, node.Lines))
    ELSE IF st.breakIdx = -1
    THEN [st EXCEPT !.breakIdx = blockStartIndex(node, mdSource)]
    ELSE st

\* the loop of ParseCommands; lp is the loop state st and the values breakIdx
\* had at the end of the iterations made so far
ParseIterate(lp, st) == [st |-> st, breakIdxs |-> Append(lp.breakIdxs, st.breakIdx)]

RECURSIVE ParseNodes(_, _, _, _, _)
ParseNodes(lp, playbook, nodes, i, mdSource) ==
    IF i > Len(nodes) THEN lp
    ELSE ParseNodes(ParseIterate(lp, ParseNode(lp.st, playbook, nodes[i], mdSource)),
                    playbook, nodes, i + 1, mdSource)

\* ParseCommands: (defs, warnings, error); doc is what the Markdown parser
\* made of mdSource
ParseCommandsOf(lp) ==
    [defs |-> lp.st.defs, warnings |-> lp.st.warnings, err |-> NilErr, breakIdxs |-> lp.breakIdxs]

ParseCommands(playbook, doc) ==
    ParseCommandsOf(ParseNodes([st |-> [defs |-> <<>>, warnings |-> <<>>, breakIdx |-> -1],
                                breakIdxs |-> <<>>],
                               playbook, doc.nodes, 1, doc.mdSource))

(***************************************************************************)
(* package commanddef: directive processing.  The package is held in two   *)
(* versions: the one that works on RawDirectives (cd, nolog) and the one   *)
(* that reads the directive lines of ScriptText (require).                 *)
(***************************************************************************)
\* the CommandDef the extractor makes of a fence, with the fields directive
\* processing reads and writes
DirectiveCommandDef(playbook, lang, scriptText) ==
    [Playbook |-> playbook, Lang |-> lang, ScriptText |-> scriptText,
     RawDirectives |-> ExtractRawDirectives(scriptText),
     DirectivesProcessed |-> FALSE, RequireEnvVars |-> <<>>,
     ChangeDir |-> "", NoLog |-> FALSE, Warnings |-> <<>>]

\* ResolvedPlaybook.PlaybookDir
PlaybookDir(pb) == IF pb.CanonicalName = "-" THEN "" ELSE Dir(pb.ResolvedFile)

\* path.IsAbs
IsAbs(p) == HasPrefix(p, "/")

\* processDirectives, the "cd" branch of the loop body; usr is what
\* user.Current returned
cdDirective(def, dirName, usr) ==
    IF dirName = ":playbook" THEN [def EXCEPT !.ChangeDir = PlaybookDir(def.Playbook)]
    ELSE IF dirName = ":current" THEN [def EXCEPT !.ChangeDir = ""]
    ELSE IF HasPrefix(dirName, "~")
    THEN IF usr # <<>> /\ usr[1].HomeDir # ""
         THEN [def EXCEPT !.ChangeDir = Join(usr[1].HomeDir, Drop(dirName, 1))]
         ELSE def
    ELSE IF ~IsAbs(dirName)
    THEN [def EXCEPT !.Warnings =
              Append(@, "'cd' directive must be absolute, got '" \o dirName \o "' (ignoring)")]
    ELSE [def EXCEPT !.ChangeDir = dirName]

\* processDirectives, the loop body for the directive dir
applyDirective(def, dir, usr) ==
    IF dir.Type = "command" THEN def
    ELSE IF dir.Type = "cd" THEN cdDirective(def, TrimSpace(dir.Data), usr)
    ELSE IF dir.Type = "nolog" THEN [def EXCEPT !.NoLog = TRUE]
    ELSE [def EXCEPT !.Warnings = Append(@, "invalid directive '" \o dir.Type \o "' (ignoring)")]

\* applyDirectives that stops at the first directive that gives a warning
RECURSIVE applyDirectives_StopAtWarning(_, _, _)
applyDirectives_StopAtWarning(def, i, usr) ==
    IF i > Len(def.RawDirectives) THEN def
    ELSE IF applyDirective(def, def.RawDirectives[i], usr).Warnings # def.Warnings
    THEN applyDirective(def, def.RawDirectives[i], usr)
    ELSE applyDirectives_StopAtWarning(applyDirective(def, def.RawDirectives[i], usr), i + 1, usr)

RECURSIVE applyDirectives(_, _, _)
applyDirectives(def, i, usr) ==
    IF i > Len(def.RawDirectives) THEN def
    ELSE applyDirectives(applyDirective(def, def.RawDirectives[i], usr), i + 1, usr)

\* processDirectives that does not look at DirectivesProcessed
processDirectives_NoFlag(def, usr) ==
    [cdef |-> applyDirectives([def EXCEPT !.DirectivesProcessed = TRUE], 1, usr),
     err |-> NilErr]

\* processDirectives: the CommandDef it leaves and the error it returns
processDirectives(def, usr) ==
    IF def.DirectivesProcessed THEN [cdef |-> def, err |-> NilErr]
    ELSE [cdef |-> applyDirectives([def EXCEPT !.DirectivesProcessed = TRUE], 1, usr),
          err |-> NilErr]

\* CheckCommand
CheckCommand(def, usr) ==
    IF processDirectives(def, usr).err # NilErr THEN processDirectives(def, usr)
    ELSE [cdef |-> processDirectives(def, usr).cdef, err |-> NilErr]

\* fmt.Sprintf("%d", n)
DigitStr == <<"0", "1", "2", "3", "4", "5", "6", "7", "8", "9">>

RECURSIVE Itoa(_)
Itoa(n) == IF n < 10 THEN DigitStr[n + 1] ELSE Itoa(n \div 10) \o DigitStr[(n % 10) + 1]

\* DirectiveRe = "^\s*(\S+)(?:\s+(.*))?$" matched on dirStr: <<>> for no
\* match, else <<parts[1], parts[2]>>
DirectiveReArgs(dirStr, q, w) == IF w = 0 THEN "" ELSE Drop(dirStr, q + w)

DirectiveReWord(dirStr, p, n) ==
    IF n = 0 THEN <<>>
    ELSE <<SubSeq(dirStr, p + 1, p + n), DirectiveReArgs(dirStr, p + n, SpaceRun(dirStr, p + n + 1))>>

DirectiveReFrom(dirStr, p) == DirectiveReWord(dirStr, p, NonSpaceRun(dirStr, p + 1))

DirectiveRe(dirStr) == DirectiveReFrom(dirStr, SpaceRun(dirStr, 1))

\* EnvVarRe = "^[a-zA-Z_][a-zA-Z0-9_]*$"
EnvVarRe(name) ==
    /\ name # ""
    /\ Char(name, 1) \in LetterChars
    /\ \A i \in 2..Len(name) : Char(name, i) \in LetterChars \cup DigitChars

\* fmt.Sprintf("%s '%s' (line %d)", what, s, lineNo)
DirectiveWarning(what, s, lineNo) == what \o " '" \o s \o "' (line " \o Itoa(lineNo) \o ")"

\* processDirective, the "require" branch
requireDirective(def, envName, lineNo) ==
    IF ~EnvVarRe(envName)
    THEN [def EXCEPT !.Warnings = Append(@, DirectiveWarning("@scripthaus 'require' directive, invalid env var name",
                                                       envName, lineNo))]
    ELSE [def EXCEPT !.RequireEnvVars = Append(@, envName)]

processDirectiveParts(def, dirStr, lineNo, parts) ==
    IF parts = <<>>
    THEN [def EXCEPT !.Warnings = Append(@, DirectiveWarning("malformed @scripthaus directive",
                                                       dirStr, lineNo))]
    ELSE IF parts[1] = "require" THEN requireDirective(def, TrimSpace(parts[2]), lineNo)
    ELSE [def EXCEPT !.Warnings = Append(@, DirectiveWarning("invalid @scripthaus directive",
                                                       parts[1], lineNo))]

\* processDirective (it always returns nil)
processDirective(def, dirStr, lineNo) ==
    processDirectiveParts(def, dirStr, lineNo, DirectiveRe(dirStr))

\* processDirectives of the version that reads ScriptText: the loop over
\* the lines, idx 0-based
RECURSIVE scanLines(_, _, _)
scanLines(def, lines, idx) ==
    IF idx >= Len(lines) THEN def
    ELSE IF HasPrefix(lines[idx + 1], "# @scripthaus ")
    THEN scanLines(processDirective(def, Drop(lines[idx + 1], 14), idx + 1),
                   lines, idx + 1)
    ELSE scanLines(def, lines, idx + 1)

processDirectivesText(def) ==
    IF def.DirectivesProcessed THEN [cdef |-> def, err |-> NilErr]
    ELSE IF def.Lang # "sh" /\ def.Lang # "bash"
    THEN [cdef |-> [def EXCEPT !.DirectivesProcessed = TRUE], err |-> NilErr]
    ELSE [cdef |-> scanLines([def EXCEPT !.DirectivesProcessed = TRUE],
                             StringsSplit(def.ScriptText, "\n"), 0),
          err |-> NilErr]

(***************************************************************************)
(* package main: the add command.                                          *)
(***************************************************************************)
\* the characters that open and close a fenced code block (the tilde form)
CodeFence == "~~~"

\* addOptsType, with Script.PlaybookFile and Script.PlaybookCommand
MkAddOpts(playbookFile, playbookCommand, scriptType, scriptText, message, shortDesc, dryRun) ==
    [PlaybookFile |-> playbookFile, PlaybookCommand |-> playbookCommand,
     ScriptType |-> scriptType, ScriptText |-> scriptText, Message |-> message,
     ShortDesc |-> shortDesc, DryRun |-> dryRun]

\* base.GetCommentString
GetCommentString(scriptType) == IF scriptType \in {"js", "node"} THEN "//" ELSE "#"

\* ResolvedPlaybook.OrigShowStr
OrigShowStr(pb) ==
    IF pb.OrigName = pb.ResolvedFile THEN pb.OrigName
    ELSE "'" \o pb.OrigName \o "' (" \o pb.ResolvedFile \o ")"

\* readCommandsFromFile: doc is what the Markdown parser makes of the file
readCommandsFromFile(playbook, doc) == ParseCommands(playbook, doc)

\* what runAddCommand returns and does
AddResult(errCode, err, out, text) ==
    [errCode |-> errCode, err |-> err, printed |-> out, appended |-> text]

AddFailed(what, out) == AddResult(1, MkErr("add", what, "", ErrOther), out, "")

\* runAddCommand: the text written into buf
addBuf(opts) ==
    "\n" \o (IF opts.Message # "" THEN opts.Message \o "\n\n" ELSE "")
         \o CodeFence \o opts.ScriptType \o "\n"
         \o GetCommentString(opts.ScriptType) \o " @scripthaus command " \o opts.PlaybookCommand
         \o (IF opts.ShortDesc # "" THEN " - " \o opts.ShortDesc ELSE "") \o "\n"
         \o opts.ScriptText \o "\n"
         \o CodeFence \o "\n"

addingLine(opts, pb) ==
    "[^scripthaus] adding command '" \o opts.PlaybookCommand \o "' to " \o OrigShowStr(pb) \o ":\n"

\* runAddCommand from the print of buf on: dry run, or the append to the file
\* (a file that cannot be opened gives a nil fd, whose WriteString and Close fail)
runAddWrite(opts, pb, canApp) ==
    IF opts.DryRun
    THEN AddResult(0, NilErr, <<addingLine(opts, pb), addBuf(opts) \o "\n",
                                "[^scripthaus] Not modifying file, --dry-run specified\n">>, "")
    ELSE IF ~canApp
    THEN AddResult(1, MkErr("add", "cannot close/write to playbook", pb.ResolvedFile, ErrOther),
                   <<addingLine(opts, pb), addBuf(opts) \o "\n", "cannot open playbook",
                     "cannot write to playbook">>, "")
    ELSE AddResult(0, NilErr, <<addingLine(opts, pb), addBuf(opts) \o "\n">>, addBuf(opts))

\* runAddCommand from the resolution of the playbook on
runAddResolved(opts, res, doc, canApp) ==
    IF res.err # NilErr
    THEN AddResult(1, res.err,
                   IF Index(res.err.kind, "not found") # 0
                   THEN <<"[^scripthaus] add will not create a new markdown file.  touch the file and re-run the add if this was your intention\n">>
                   ELSE <<>>, "")
    ELSE IF readCommandsFromFile(res.pb[1], doc).err # NilErr
    THEN AddResult(1, readCommandsFromFile(res.pb[1], doc).err, <<>>, "")
    ELSE IF \E k \in 1..Len(readCommandsFromFile(res.pb[1], doc).defs) :
                readCommandsFromFile(res.pb[1], doc).defs[k].Name = opts.PlaybookCommand
    THEN AddFailed("script with name already exists", <<>>)
    ELSE runAddWrite(opts, res.pb[1], canApp)

\* runAddCommand from the checks of the script text on
runAddText(opts, realScriptText, doc, canApp) ==
    IF Len(realScriptText) > 5000 THEN AddFailed("script-text too long", <<>>)
    ELSE IF Index(realScriptText, CodeFence) # 0
    THEN AddFailed("script-text cannot contain the code fence characters", <<>>)
    ELSE IF opts.PlaybookFile = "-" \/ opts.PlaybookFile = "<stdin>"
    THEN AddFailed("playbook file cannot be '-'", <<>>)
    ELSE IF opts.ScriptType = "" THEN AddFailed("must specify a script-type", <<>>)
    ELSE IF ~IsValidScriptType(opts.ScriptType)
    THEN AddFailed("must specify a valid script type", <<>>)
    ELSE runAddResolved(opts, ResolvePlaybook(opts.PlaybookFile), doc, canApp)

\* runAddCommand, given the options parseAddOpts returned
runAddCommand(opts, in, doc, canApp) ==
    IF opts.ScriptText = "-"
    THEN IF in = <<>> THEN AddFailed("reading from <stdin>", <<>>)
         ELSE IF Len(in[1]) = 0 THEN AddFailed("reading script-text from <stdin>, but got empty string", <<>>)
         ELSE runAddText(opts, in[1], doc, canApp)
    ELSE runAddText(opts, opts.ScriptText, doc, canApp)

(***************************************************************************)
(* The inputs: directory trees, environments and names.                    *)
(***************************************************************************)
DirNames == <<"p", "q", "r", "s", "t">>

\* the directory at depth n of the chain "/", "/p", "/p/q", ...
RECURSIVE ChainDir(_)
ChainDir(n) == IF n = 0 THEN "/" ELSE Join(ChainDir(n - 1), DirNames[n])

ChainDirs == {ChainDir(n) : n \in 0..MaxDepth}

\* what a directory may hold:
\*   none    nothing
\*   marker  a scripthaus.md file
\*   both    a scripthaus.md file and the files a.md and @a.md
\*   pb      the files a.md and @a.md
\*   pbdir   a scripthaus.md file and a directory a.md holding a scripthaus.md file
\*   mdir    directories scripthaus.md and a.md, and a directory a.md/scripthaus.md
\*   locked  no search permission: a stat of anything inside is denied
\*   broken  a stat of scripthaus.md, a.md or @a.md inside fails with an I/O error
Profiles == {"none", "marker", "both", "pb", "pbdir", "mdir", "locked", "broken"}

\* the profiles the marker walk tells apart
WalkProfiles == {"none", "marker", "locked", "broken"}

\* the profiles a test Resolver's file lists can express
TestProfiles == Profiles \ {"broken"}

FilesOf(d, prof) ==
    CASE prof = "marker" -> {Join(d, "scripthaus.md")}
      [] prof = "both" -> {Join(d, "scripthaus.md"), Join(d, "a.md"), Join(d, "@a.md")}
      [] prof = "pb" -> {Join(d, "a.md"), Join(d, "@a.md")}
      [] prof = "pbdir" -> {Join(d, "scripthaus.md"), Join(d, "a.md/scripthaus.md")}
      [] OTHER -> {}

DirsOf(d, prof) ==
    CASE prof = "pbdir" -> {d, Join(d, "a.md")}
      [] prof = "mdir" -> {d, Join(d, "scripthaus.md"), Join(d, "a.md"), Join(d, "a.md/scripthaus.md")}
      [] OTHER -> {d}

DeniedOf(d, prof) == IF prof = "locked" THEN {d} ELSE {}

BrokenOf(d, prof) ==
    IF prof = "broken" THEN {Join(d, "scripthaus.md"), Join(d, "a.md"), Join(d, "@a.md")} ELSE {}

\* the file system in which every directory d of asg holds what asg[d] says
DiskOf(asg) ==
    [files |-> UNION {FilesOf(d, asg[d]) : d \in DOMAIN asg},
     dirs |-> UNION {DirsOf(d, asg[d]) : d \in DOMAIN asg},
     denied |-> UNION {DeniedOf(d, asg[d]) : d \in DOMAIN asg},
     broken |-> UNION {BrokenOf(d, asg[d]) : d \in DOMAIN asg}]

NoDisk == [files |-> {}, dirs |-> {}, denied |-> {}, broken |-> {}]

\* DefaultResolver()
DefaultResolver ==
    [TestMode |-> FALSE, Cwd |-> "", ScHomeDir |-> "",
     TestFiles |-> {}, TestDirs |-> {}, TestBadPermDirs |-> {}]

RECURSIVE Dots(_)
Dots(k) == IF k = 0 THEN "" ELSE "." \o Dots(k - 1)

\* the playbook names given to ResolvePlaybook
Names ==
    {"-", "", "^", "^a.md", "^a.md/", "^x.md", "a.md", "x.md", "_", "a.md/",
     "@", "@a.md", "@^", "@.a.md", "@/p/a.md", "@-",
     "./a.md", "../a.md", "./", "../", "/p/a.md", "/p/", "/p", "/",
     ".*a.md", "^^", "*", "^/p", ".-", "--"}
    \cup {Dots(k) : k \in 1..MaxDots}
    \cup {Dots(k) \o "a.md" : k \in 1..MaxDots}

\* the script names given to SplitScriptName
ScriptNames ==
    {pre \o body \o suf :
        pre \in {"", "^", "@", "./", "/", "*"} \cup {Dots(k) : k \in 1..MaxDots},
        body \in {"", "a", "_b", "a.md", ":"},
        suf \in {"", "::c", "::c::d", ".md"}}

(***************************************************************************)
(* The documents: up to MaxBlocks top-level blocks, each followed by a     *)
(* blank line. A block is written as a kind, a heading level, the info     *)
(* string of a fence and the lines of its text.                            *)
(***************************************************************************)
Block(kind, level, info, lines) == [kind |-> kind, level |-> level, info |-> info, lines |-> lines]

Fence(info, lines) == Block("FencedCodeBlock", 0, info, lines)

Fences ==
    {Fence("bash", <<"# @scripthaus command foo - does a thing\n", "echo hi\n">>),
     Fence("python3 scripthaus x=1", <<"# @scripthaus command bar\n">>),
     Fence("ruby", <<"# @scripthaus command baz - a ruby thing\n">>),
     Fence("sh", <<"// @scripthaus cd /tmp\n", "# @scripthaus command foo  -  again\n",
                   "# @scripthaus command other - second\n">>),
     Fence("bash", <<"# @scripthaus command b@d - x\n">>),
     Fence("bash", <<"# @scripthaus nolog\n", "echo\n">>),
     Fence("bash", <<"echo plain\n">>),
     Fence("bash", <<"# @scripthaus command\n", "echo\n">>),
     Fence("", <<"# @scripthaus command hidden\n">>)}

Blocks ==
    Fences \cup
    {Block("ThematicBreak", 0, "", <<>>),
     Block("Heading", 2, "", <<"title">>),
     Block("Heading", 4, "", <<"anchor">>),
     Block("Heading", 5, "", <<"minor">>),
     Block("Paragraph", 0, "", <<"some prose">>),
     Block("List", 0, "", <<>>)}

RECURSIVE Concat(_)
Concat(strs) == IF strs = <<>> THEN "" ELSE Head(strs) \o Concat(Tail(strs))

RECURSIVE Hashes(_)
Hashes(n) == IF n = 0 THEN "" ELSE "#" \o Hashes(n - 1)

\* the source text of a block
BlockSource(b) ==
    CASE b.kind = "ThematicBreak" -> "---\n\n"
      [] b.kind = "Heading" -> Hashes(b.level) \o " " \o b.lines[1] \o "\n\n"
      [] b.kind = "Paragraph" -> b.lines[1] \o "\n\n"
      [] b.kind = "List" -> "- item\n\n"
      [] b.kind = "FencedCodeBlock" ->
             CodeFence \o b.info \o "\n" \o Concat(b.lines) \o CodeFence \o "\n\n"

\* the segments of the lines of a text that starts at offset off
RECURSIVE LineSegments(_, _)
LineSegments(lines, off) ==
    IF lines = <<>> THEN <<>>
    ELSE <<[Start |-> off, Stop |-> off + Len(Head(lines))]>>
         \o LineSegments(Tail(lines), off + Len(Head(lines)))

\* the node the parser makes of a block whose source starts at offset off
BlockNode(b, off) ==
    [kind |-> b.kind,
     Level |-> b.level,
     Info |-> IF b.kind = "FencedCodeBlock" /\ b.info # ""
              THEN <<[Start |-> off + 3, Stop |-> off + 3 + Len(b.info)]>> ELSE <<>>,
     Lines |-> CASE b.kind = "Heading" -> LineSegments(b.lines, off + b.level + 1)
                 [] b.kind = "FencedCodeBlock" -> LineSegments(b.lines, off + 4 + Len(b.info))
                 [] OTHER -> LineSegments(b.lines, off)]

RECURSIVE BlockNodes(_, _)
BlockNodes(blocks, off) ==
    IF blocks = <<>> THEN <<>>
    ELSE <<BlockNode(Head(blocks), off)>>
         \o BlockNodes(Tail(blocks), off + Len(BlockSource(Head(blocks))))

RECURSIVE BlocksSource(_)
BlocksSource(blocks) ==
    IF blocks = <<>> THEN "" ELSE BlockSource(Head(blocks)) \o BlocksSource(Tail(blocks))

\* the document written as blocks, parsed
DocumentOf(blocks) ==
    [blocks |-> blocks, mdSource |-> BlocksSource(blocks), nodes |-> BlockNodes(blocks, 0)]

Documents == {DocumentOf(blocks) : blocks \in UNION {[1..n -> Blocks] : n \in 1..MaxBlocks}}

NoDocument == [blocks |-> <<>>, mdSource |-> "", nodes |-> <<>>]

\* the playbook the documents are read from
ThePlaybook == MkPlaybook(".a.md", ".a.md", "/p/a.md", "/p")

(***************************************************************************)
(* The initial states: a Resolver, a file system and an environment.       *)
(***************************************************************************)
\* no resolvePlaybookInDir call and no FindPrefixDir call is made
NoInDir ==
    [origName |-> "", curDir |-> "", playbookName |-> "", fullPath |-> "",
     finfo |-> [IsDir |-> FALSE, err |-> ErrNil], stats |-> <<>>]

NoFile == [file |-> "", err |-> NilErr]

NoPrefixDir == [dir |-> "", err |-> NilErr]

\* no findScRootDir call is made
NoWalk == [start |-> "", allowCurrent |-> FALSE, curDir |-> "", probes |-> <<>>]

NoRoot == [dir |-> "", err |-> ErrNil]

\* no add command is run
NoAdd ==
    /\ addOpts = MkAddOpts("", "", "", "", "", "", FALSE)
    /\ stdin = <<>>
    /\ canAppend = FALSE
    /\ printed = <<>>
    /\ appended = ""
    /\ rtnCode = 0
    /\ walk = NoWalk
    /\ rtnRoot = NoRoot
    /\ inDir = NoInDir
    /\ rtnFile = NoFile
    /\ rtnPrefix = NoPrefixDir

\* no ExtractRawDirectives call is made
NoScan ==
    /\ scanText = ""
    /\ rtnDirectives = <<>>

\* no CommandDef is being processed
NoCommandDef == DirectiveCommandDef(MkPlaybook("", "", "", ""), "", "")

Idle ==
    /\ pc = "idle"
    /\ arg = ""
    /\ rtnPb = <<>>
    /\ rtnErr = NilErr
    /\ rtnSplit = [playbook |-> "", script |-> "", err |-> NilErr]
    /\ md = NoDocument
    /\ rtnDefs = <<>>
    /\ rtnWarnings = <<>>
    /\ breakIdxs = <<>>
    /\ cdef = NoCommandDef
    /\ osUser = <<>>
    /\ ncalls = 0
    /\ NoAdd
    /\ NoScan

\* the process runs in a directory of the chain; every directory of the chain
\* holds one of the profiles; no home directory is configured
InitWalk ==
    /\ r = DefaultResolver
    /\ \E asg \in [ChainDirs -> Profiles] : disk = DiskOf(asg)
    /\ oswd \in ChainDirs \ {"/"}
    /\ env = [SCRIPTHAUS_HOME |-> "", HOME |-> ""]
    /\ Idle

\* the environment names the home directory, absolute or relative, or does not;
\* each directory it can name holds the same profile; os.Getwd may fail
InitHome ==
    /\ r = DefaultResolver
    /\ oswd \in (ChainDirs \ {"/"}) \cup {""}
    /\ env \in [SCRIPTHAUS_HOME : {"", "/g", "g"}, HOME : {"", "/h", "h"}]
    /\ \E prof \in Profiles :
         LET homes == {"/g", "/h/scripthaus"} \cup
                      (IF oswd = "" THEN {} ELSE {Join(oswd, "g"), Join(oswd, "h/scripthaus")})
         IN  disk = DiskOf([d \in ChainDirs \cup homes |-> IF d \in homes THEN prof ELSE "none"])
    /\ Idle

\* a test Resolver: its own working directory, home directory and file lists
InitTest ==
    /\ \E asg \in [ChainDirs \cup {"/g"} -> TestProfiles], cwd \in ChainDirs \ {"/"},
          scHome \in {"", "/g"} :
         /\ asg["/"] = "none"
         /\ asg["/g"] = "both"
         /\ r = [TestMode |-> TRUE, Cwd |-> cwd, ScHomeDir |-> scHome,
                 TestFiles |-> DiskOf(asg).files, TestDirs |-> DiskOf(asg).dirs,
                 TestBadPermDirs |-> DiskOf(asg).denied]
    /\ disk = NoDisk
    /\ oswd = ""
    /\ env = [SCRIPTHAUS_HOME |-> "", HOME |-> ""]
    /\ Idle

Init == InitWalk \/ InitHome \/ InitTest

(***************************************************************************)
(* The calls.                                                              *)
(***************************************************************************)
\* a call of Resolver.ResolvePlaybook
ResolvePlaybookCall ==
    /\ pc = "idle"
    /\ \E playbookName \in Names :
         /\ arg' = playbookName
         /\ rtnPb' = ResolvePlaybook(playbookName).pb
         /\ rtnErr' = ResolvePlaybook(playbookName).err
    /\ pc' = "ResolvePlaybook"
    /\ UNCHANGED <<r, disk, oswd, env, rtnSplit, parserVars, directiveVars, addVars, rootVars, inDirVars, scanVars>>

\* a call of SplitScriptName
SplitScriptNameCall ==
    /\ pc = "idle"
    /\ \E scriptName \in ScriptNames :
         /\ arg' = scriptName
         /\ rtnSplit' = SplitScriptName(scriptName)
    /\ pc' = "SplitScriptName"
    /\ UNCHANGED <<r, disk, oswd, env, rtnPb, rtnErr, parserVars, directiveVars, addVars, rootVars, inDirVars, scanVars>>

Next == ResolvePlaybookCall

Spec == Init /\ [][Next]_vars

\* SplitScriptName reads nothing but its argument
InitSplit ==
    /\ r = DefaultResolver
    /\ disk = NoDisk
    /\ oswd = "/"
    /\ env = [SCRIPTHAUS_HOME |-> "", HOME |-> ""]
    /\ Idle

NextSplit == SplitScriptNameCall

SpecSplit == InitSplit /\ [][NextSplit]_vars

\* a call of ParseCommands
ParseCommandsReturn(rtn) ==
    /\ rtnDefs' = rtn.defs
    /\ rtnWarnings' = rtn.warnings
    /\ rtnErr' = rtn.err
    /\ breakIdxs' = rtn.breakIdxs

ParseCommandsCall ==
    /\ pc = "idle"
    /\ ParseCommandsReturn(ParseCommands(ThePlaybook, md))
    /\ pc' = "ParseCommands"
    /\ UNCHANGED <<r, disk, oswd, env, arg, rtnPb, rtnSplit, md, directiveVars, addVars, rootVars, inDirVars, scanVars>>

\* a document is read from a playbook that was resolved before
InitParse ==
    /\ r = DefaultResolver
    /\ disk = NoDisk
    /\ oswd = "/"
    /\ env = [SCRIPTHAUS_HOME |-> "", HOME |-> ""]
    /\ pc = "idle"
    /\ arg = ""
    /\ rtnPb = <<ThePlaybook>>
    /\ rtnErr = NilErr
    /\ rtnSplit = [playbook |-> "", script |-> "", err |-> NilErr]
    /\ md \in Documents
    /\ rtnDefs = <<>>
    /\ rtnWarnings = <<>>
    /\ breakIdxs = <<>>
    /\ cdef = NoCommandDef
    /\ osUser = <<>>
    /\ ncalls = 0
    /\ NoAdd
    /\ NoScan

NextParse == ParseCommandsCall

SpecParse == InitParse /\ [][NextParse]_vars

(***************************************************************************)
(* Directive processing: a CommandDef is made from a fence of at most      *)
(* MaxLines lines and its directives are processed up to MaxCalls times    *)
(* by one of the two versions of the package.                              *)
(***************************************************************************)
ScriptLines ==
    {"# @scripthaus command foo - x", "# @scripthaus cd :playbook",
     "# @scripthaus cd :current", "# @scripthaus cd ~/w", "# @scripthaus cd rel",
     "# @scripthaus cd /opt", "# @scripthaus nolog", "# @scripthaus require FOO",
     "# @scripthaus require BAR_2", "# @scripthaus require 2bad",
     "# @scripthaus bogus", "echo hi"}

RECURSIVE LinesText(_)
LinesText(lines) == IF lines = <<>> THEN "" ELSE Head(lines) \o "\n" \o LinesText(Tail(lines))

ScriptTexts == {LinesText(lines) : lines \in UNION {[1..n -> ScriptLines] : n \in 1..MaxLines}}

StdinPlaybook == MkPlaybook("-", "-", "-", "")

\* what ResolvePlaybook("^a.md") returns when SCRIPTHAUS_HOME is the relative path g
HomePlaybook == MkPlaybook("^a.md", "^a.md", "g/a.md", "")

CommandDefs ==
    {DirectiveCommandDef(pb, lang, text) :
        pb \in {ThePlaybook, StdinPlaybook, HomePlaybook}, lang \in {"bash", "python3"}, text \in ScriptTexts}

OsUsers == {<<>>, <<[HomeDir |-> ""]>>, <<[HomeDir |-> "/home/u"]>>}

InitDirectives ==
    /\ r = DefaultResolver
    /\ disk = NoDisk
    /\ oswd = "/"
    /\ env = [SCRIPTHAUS_HOME |-> "", HOME |-> ""]
    /\ pc = "idle"
    /\ arg = ""
    /\ rtnPb = <<>>
    /\ rtnErr = NilErr
    /\ rtnSplit = [playbook |-> "", script |-> "", err |-> NilErr]
    /\ md = NoDocument
    /\ rtnDefs = <<>>
    /\ rtnWarnings = <<>>
    /\ breakIdxs = <<>>
    /\ cdef \in CommandDefs
    /\ osUser \in OsUsers
    /\ ncalls = 0
    /\ NoAdd
    /\ NoScan

\* CheckCommand is called on cdef (the version that works on RawDirectives)
CheckCommandCall ==
    /\ pc \in {"idle", "CheckCommand"}
    /\ ncalls < MaxCalls
    /\ cdef' = CheckCommand(cdef, osUser).cdef
    /\ rtnErr' = CheckCommand(cdef, osUser).err
    /\ ncalls' = ncalls + 1
    /\ pc' = "CheckCommand"
    /\ UNCHANGED <<r, disk, oswd, env, arg, rtnPb, rtnSplit, parserVars, osUser, addVars, rootVars, inDirVars, scanVars>>

\* processDirectives is called on cdef (the version that reads ScriptText)
ProcessDirectivesTextCall ==
    /\ pc \in {"idle", "processDirectivesText"}
    /\ ncalls < MaxCalls
    /\ cdef' = processDirectivesText(cdef).cdef
    /\ rtnErr' = processDirectivesText(cdef).err
    /\ ncalls' = ncalls + 1
    /\ pc' = "processDirectivesText"
    /\ UNCHANGED <<r, disk, oswd, env, arg, rtnPb, rtnSplit, parserVars, osUser, addVars, rootVars, inDirVars, scanVars>>

NextDirectives == CheckCommandCall \/ ProcessDirectivesTextCall

SpecDirectives == InitDirectives /\ [][NextDirectives]_vars

(***************************************************************************)
(* The add command: the playbook a.md in the working directory /p holds    *)
(* the command foo; the options are what parseAddOpts can return (a        *)
(* playbook and a script text are given).                                  *)
(***************************************************************************)
RECURSIVE Repeat(_, _)
Repeat(str, n) == IF n = 0 THEN "" ELSE str \o Repeat(str, n - 1)

\* a text of 5001 characters
LongText == Repeat(Repeat("0123456789", 10), 50) \o "x"

AddOptions ==
    {MkAddOpts(file, cmd, type, text, msg, desc, dry) :
        file \in {"-", "a.md", "zz.md"}, cmd \in {"foo", "new"},
        type \in {"", "bash", "ruby", "js"},
        text \in {"-", "echo hi", "a" \o CodeFence \o "b"},
        msg \in {"", "help"}, desc \in {"", "short"}, dry \in BOOLEAN}

StdinTexts == {<<>>, <<"">>, <<"ls -l\nwc\n">>, <<"x" \o CodeFence>>, <<LongText>>}

AddDocument ==
    DocumentOf(<<Fence("bash", <<"# @scripthaus command foo - does a thing\n", "echo hi\n">>)>>)

InitAdd ==
    /\ r = DefaultResolver
    /\ disk = DiskOf([d \in ChainDirs |-> IF d = "/p" THEN "pb" ELSE "none"])
    /\ oswd = "/p"
    /\ env = [SCRIPTHAUS_HOME |-> "", HOME |-> ""]
    /\ pc = "idle"
    /\ arg = ""
    /\ rtnPb = <<>>
    /\ rtnErr = NilErr
    /\ rtnSplit = [playbook |-> "", script |-> "", err |-> NilErr]
    /\ md = AddDocument
    /\ rtnDefs = <<>>
    /\ rtnWarnings = <<>>
    /\ breakIdxs = <<>>
    /\ cdef = NoCommandDef
    /\ osUser = <<>>
    /\ ncalls = 0
    /\ addOpts \in AddOptions
    /\ stdin \in StdinTexts
    /\ canAppend \in BOOLEAN
    /\ printed = <<>>
    /\ appended = ""
    /\ rtnCode = 0
    /\ walk = NoWalk
    /\ rtnRoot = NoRoot
    /\ inDir = NoInDir
    /\ rtnFile = NoFile
    /\ rtnPrefix = NoPrefixDir
    /\ scanText = ""
    /\ rtnDirectives = <<>>

\* the add command runs
RunAddCommandCall ==
    /\ pc = "idle"
    /\ rtnCode' = runAddCommand(addOpts, stdin, md, canAppend).errCode
    /\ rtnErr' = runAddCommand(addOpts, stdin, md, canAppend).err
    /\ printed' = runAddCommand(addOpts, stdin, md, canAppend).printed
    /\ appended' = runAddCommand(addOpts, stdin, md, canAppend).appended
    /\ pc' = "runAddCommand"
    /\ UNCHANGED <<r, disk, oswd, env, arg, rtnPb, rtnSplit, parserVars, directiveVars,
                   addOpts, stdin, canAppend, rootVars, inDirVars,
                   scanVars>>

NextAdd == RunAddCommandCall

SpecAdd == InitAdd /\ [][NextAdd]_vars

(***************************************************************************)
(* FindPrefixDir called with any prefix, the ones ResolvePlaybook never    *)
(* passes included.                                                        *)
(***************************************************************************)
Prefixes == {"", "^", "^x", "x", "x.", "/", ".x", "./", "..x", ".x."} \cup {Dots(k) : k \in 1..MaxDots}

InitPrefix ==
    /\ r = DefaultResolver
    /\ \E asg \in [ChainDirs -> WalkProfiles] : disk = DiskOf(asg)
    /\ oswd \in ChainDirs \cup {""}
    /\ env \in [SCRIPTHAUS_HOME : {"", "/g"}, HOME : {""}]
    /\ Idle

\* a call of Resolver.FindPrefixDir
FindPrefixDirCall ==
    /\ pc = "idle"
    /\ \E prefix \in Prefixes :
         /\ arg' = prefix
         /\ rtnPrefix' = FindPrefixDir(prefix)
    /\ pc' = "FindPrefixDir"
    /\ UNCHANGED <<r, disk, oswd, env, rtnPb, rtnErr, rtnSplit, parserVars, directiveVars,
                   addVars, rootVars, inDir, rtnFile, scanVars>>

NextPrefix == FindPrefixDirCall

SpecPrefix == InitPrefix /\ [][NextPrefix]_vars

(***************************************************************************)
(* ExtractRawDirectives called on a text of up to MaxScanLines lines.      *)
(***************************************************************************)
ScanLines ==
    {"# @scripthaus nolog", "  # @scripthaus nolog", "\t// @scripthaus cd /tmp",
     "// @scripthaus command foo - x", "#@scripthaus nolog", "# @scripthaus",
     "#  @scripthaus  cd   /a  ", "x # @scripthaus nolog", "echo hi", ""}

ScanTexts == {LinesText(lines) : lines \in UNION {[1..n -> ScanLines] : n \in 1..MaxScanLines}}

InitScan ==
    /\ r = DefaultResolver
    /\ disk = NoDisk
    /\ oswd = "/"
    /\ env = [SCRIPTHAUS_HOME |-> "", HOME |-> ""]
    /\ pc = "idle"
    /\ arg = ""
    /\ rtnPb = <<>>
    /\ rtnErr = NilErr
    /\ rtnSplit = [playbook |-> "", script |-> "", err |-> NilErr]
    /\ md = NoDocument
    /\ rtnDefs = <<>>
    /\ rtnWarnings = <<>>
    /\ breakIdxs = <<>>
    /\ cdef = NoCommandDef
    /\ osUser = <<>>
    /\ ncalls = 0
    /\ NoAdd
    /\ scanText \in ScanTexts
    /\ rtnDirectives = <<>>

\* a call of ExtractRawDirectives
ExtractRawDirectivesCall ==
    /\ pc = "idle"
    /\ rtnDirectives' = ExtractRawDirectives(scanText)
    /\ pc' = "ExtractRawDirectives"
    /\ UNCHANGED <<r, disk, oswd, env, arg, rtnPb, rtnErr, rtnSplit, parserVars, directiveVars,
                   addVars, rootVars, inDirVars, scanText>>

NextScan == ExtractRawDirectivesCall

SpecScan == InitScan /\ [][NextScan]_vars

(***************************************************************************)
(* resolvePlaybookInDir, one statement at a time.  One directory of the     *)
(* chain holds something, the others are empty.                            *)
(***************************************************************************)
InDirDisks == {DiskOf([d \in ChainDirs |-> IF d = at THEN prof ELSE "none"]) :
                  at \in ChainDirs, prof \in Profiles}

InitInDir ==
    /\ r = DefaultResolver
    /\ disk \in InDirDisks
    /\ oswd = "/"
    /\ env = [SCRIPTHAUS_HOME |-> "", HOME |-> ""]
    /\ Idle

\* resolvePlaybookInDir is entered: the file name is completed, joined to curDir
\* and stat-ed
ResolveInDirStat(origName, curDir, playbookName, fullPath) ==
    inDir' = [origName |-> origName, curDir |-> curDir, playbookName |-> playbookName,
              fullPath |-> fullPath, finfo |-> statInfo(fullPath), stats |-> <<fullPath>>]

ResolveInDirEnter ==
    /\ pc = "idle"
    /\ \E origName \in {"", "a.md"}, curDir \in ChainDirs,
          playbookName \in {"", "a.md", "a.md/", "@a.md", "zz.md"} :
         ResolveInDirStat(origName, curDir, playbookName,
                          Join(curDir, IF playbookName = "" THEN DefaultScFile
                                       ELSE IF HasSuffix(playbookName, "/")
                                       THEN playbookName \o DefaultScFile
                                       ELSE playbookName))
    /\ pc' = "resolvePlaybookInDir"
    /\ UNCHANGED <<r, disk, oswd, env, arg, rtnPb, rtnErr, rtnSplit, parserVars,
                   directiveVars, addVars, rootVars, rtnFile, rtnPrefix, scanVars>>

\* the if statement after the first stat: a directory is stat-ed again with the
\* default file name inside it
ResolveInDirRetry ==
    /\ pc = "resolvePlaybookInDir"
    /\ IF inDir.finfo.err = ErrNil /\ inDir.finfo.IsDir
       THEN inDir' = [inDir EXCEPT
                         !.fullPath = Join(@, DefaultScFile),
                         !.finfo = statInfo(Join(inDir.fullPath, DefaultScFile)),
                         !.stats = Append(@, Join(inDir.fullPath, DefaultScFile))]
       ELSE UNCHANGED inDir
    /\ pc' = "resolvePlaybookInDirStat"
    /\ UNCHANGED <<r, disk, oswd, env, arg, rtnPb, rtnErr, rtnSplit, parserVars,
                   directiveVars, addVars, rootVars, rtnFile, rtnPrefix, scanVars>>

\* the rest of resolvePlaybookInDir: the result is made of fullPath and finfo
ResolveInDirReturn ==
    /\ pc = "resolvePlaybookInDirStat"
    /\ rtnFile' = resolveResult(IF inDir.origName = "" THEN "<default>" ELSE inDir.origName,
                                inDir.fullPath, inDir.finfo)
    /\ pc' = "resolvePlaybookInDirDone"
    /\ UNCHANGED <<r, disk, oswd, env, arg, rtnPb, rtnErr, rtnSplit, parserVars,
                   directiveVars, addVars, rootVars, inDir, rtnPrefix, scanVars>>

NextInDir == ResolveInDirEnter \/ ResolveInDirRetry \/ ResolveInDirReturn

SpecInDir == InitInDir /\ [][NextInDir]_vars

(***************************************************************************)
(* The marker walk, one loop iteration at a time.  The start directory is  *)
(* a directory of the chain, written clean or not, or a relative or empty  *)
(* name (a Resolver made with Cwd set can pass any of them).               *)
(***************************************************************************)
StartDirs ==
    ChainDirs \cup {"", "p", "p/q", ChainDir(MaxDepth) \o "/", ChainDir(MaxDepth) \o "/..",
                    "/p/./q"}

InitRoot ==
    /\ r = DefaultResolver
    /\ \E asg \in [ChainDirs -> WalkProfiles] : disk = DiskOf(asg)
    /\ oswd = "/"
    /\ env = [SCRIPTHAUS_HOME |-> "", HOME |-> ""]
    /\ Idle

\* findScRootDir is entered: the statements before the loop
FindScRootEnter ==
    /\ pc = "idle"
    /\ \E curDir \in StartDirs, allowCurrent \in BOOLEAN :
         walk' = [start |-> curDir, allowCurrent |-> allowCurrent,
                  curDir |-> IF ~allowCurrent THEN parentDir(curDir) ELSE curDir,
                  probes |-> <<>>]
    /\ pc' = "findScRootDir"
    /\ UNCHANGED <<r, disk, oswd, env, arg, rtnPb, rtnErr, rtnSplit, parserVars,
                   directiveVars, addVars, rtnRoot, inDirVars, scanVars>>

\* one iteration of the loop: the probe f of curDir gives the result or the
\* next curDir
FindScRootProbe(f) ==
    /\ walk' = [walk EXCEPT !.probes = Append(@, walk.curDir),
                            !.curDir = IF f.err # ErrNil \/ f.found THEN @ ELSE parentDir(@)]
    /\ IF f.err # ErrNil THEN rtnRoot' = [dir |-> "", err |-> f.err] /\ pc' = "findScRootDirDone"
       ELSE IF f.found THEN rtnRoot' = [dir |-> walk.curDir, err |-> ErrNil] /\ pc' = "findScRootDirDone"
       ELSE UNCHANGED <<rtnRoot, pc>>

FindScRootIterate ==
    /\ pc = "findScRootDir"
    /\ walk.curDir # ""
    /\ FindScRootProbe(tryFindFile(Join(walk.curDir, DefaultScFile), "playbook", TRUE))
    /\ UNCHANGED <<r, disk, oswd, env, arg, rtnPb, rtnErr, rtnSplit, parserVars,
                   directiveVars, addVars, inDirVars, scanVars>>

\* the loop condition fails: not found
FindScRootExit ==
    /\ pc = "findScRootDir"
    /\ walk.curDir = ""
    /\ rtnRoot' = [dir |-> "", err |-> ErrNotExist]
    /\ pc' = "findScRootDirDone"
    /\ UNCHANGED <<r, disk, oswd, env, arg, rtnPb, rtnErr, rtnSplit, parserVars,
                   directiveVars, addVars, walk, inDirVars, scanVars>>

NextRoot == FindScRootEnter \/ FindScRootIterate \/ FindScRootExit

\* a call that was entered runs on.  This is WF_<<pc, walk>>(FindScRootIterate \/
\* FindScRootExit) with its ENABLED written out: inside the loop one of the two
\* is enabled, outside none is
LoopFairness == []<>(pc # "findScRootDir") \/ []<><<TRUE>>_<<pc, walk>>

SpecRoot == InitRoot /\ [][NextRoot]_vars /\ LoopFairness

(***************************************************************************)
(* What the properties speak of.                                           *)
(***************************************************************************)
Resolved == pc = "ResolvePlaybook"

Succeeded == Resolved /\ rtnErr = NilErr /\ rtnPb # <<>>

\* the working directory of the call ("" when there is none)
TheCwd == IF r.Cwd # "" THEN r.Cwd ELSE oswd

\* the stat probe reports a regular file, a directory, or fails with errno
IsFile(path) == statInfo(path).err = ErrNil /\ ~statInfo(path).IsDir

IsDirectory(path) == statInfo(path).err = ErrNil /\ statInfo(path).IsDir

\* file inside the directory d, both written without a trailing slash
Inside(d, file) == IF d = "/" THEN "/" \o file ELSE d \o "/" \o file

\* the directories from d up to "/", d first
AncestorsOf(d) ==
    LET k == CHOOSE i \in 0..MaxDepth : ChainDir(i) = d
    IN  [j \in 1..(k + 1) |-> ChainDir(k + 1 - j)]

IsMarkerDir(d) == IsFile(Inside(d, "scripthaus.md"))

\* the project roots at and above d, nearest first
MarkersAbove(d) == SelectSeq(AncestorsOf(d), IsMarkerDir)

\* the number of project roots among the first i directories of anc
RECURSIVE MarkerCount(_, _)
MarkerCount(anc, i) ==
    IF i = 0 THEN 0 ELSE MarkerCount(anc, i - 1) + (IF IsMarkerDir(anc[i]) THEN 1 ELSE 0)

\* a walk for n dots from d meets a probe that fails with an I/O error before
\* it has passed n project roots
WalkAborts(d, n) ==
    \E i \in 1..Len(AncestorsOf(d)) :
        /\ statInfo(Inside(AncestorsOf(d)[i], "scripthaus.md")).err = ErrOther
        /\ MarkerCount(AncestorsOf(d), i - 1) < n

\* the name forms
IsBareName(name) == name # "" /\ Char(name, 1) \in LetterChars

IsGlobalName(name) == name = "^" \/ (HasPrefix(name, "^") /\ Char(name, 2) \in LetterChars)

IsDotName(name) ==
    /\ HasPrefix(name, ".")
    /\ (Len(name) = LeadingDots(name) \/ Char(name, LeadingDots(name) + 1) \in LetterChars)

IsPathName(name) == HasPrefix(name, "/") \/ HasPrefix(name, "./") \/ HasPrefix(name, "../")

\* the global root: <<>> when none is configured
GlobalRoot ==
    IF r.ScHomeDir # "" THEN <<r.ScHomeDir>>
    ELSE IF env.SCRIPTHAUS_HOME # "" THEN <<env.SCRIPTHAUS_HOME>>
    ELSE IF env.HOME # "" THEN <<env.HOME \o "/scripthaus">>
    ELSE <<>>

\* the file a name without its prefix stands for inside a directory
FileOrDefault(rest) ==
    IF rest = "" THEN "scripthaus.md"
    ELSE IF HasSuffix(rest, "/") THEN rest \o "scripthaus.md"
    ELSE rest

(***************************************************************************)
(* C1: ResolvePlaybook returns either an error and no playbook, or no      *)
(* error and a playbook whose ResolvedFile is not empty.                   *)
(***************************************************************************)
C1_PlaybookOrError ==
    Resolved =>
        \/ rtnErr # NilErr /\ rtnPb = <<>>
        \/ rtnErr = NilErr /\ rtnPb # <<>> /\ rtnPb[1].ResolvedFile # ""

C1_Witness ==
    /\ Resolved /\ arg = ".a.md"
    /\ rtnErr = NilErr /\ rtnPb # <<>> /\ rtnPb[1].ResolvedFile = "/p/a.md"

(***************************************************************************)
(* C2: a name that begins with "@" never resolves: the call returns no     *)
(* playbook and the "@-prefix not supported" error, whatever follows the   *)
(* "@" and whatever the file system holds.                                 *)
(***************************************************************************)
C2_AtPrefixFails ==
    Resolved /\ HasPrefix(arg, "@") =>
        rtnPb = <<>> /\ rtnErr = MkErr("@-prefix not supported", arg, "", ErrNil)

\* "@a.md" is a regular file of the working directory, and the call still fails
C2_Witness ==
    /\ Resolved /\ arg = "@a.md" /\ TheCwd # ""
    /\ IsFile(Inside(TheCwd, "@a.md"))
    /\ rtnErr.kind = "@-prefix not supported"

(***************************************************************************)
(* C3: "^" and "^file" resolve inside the global root R (the Resolver's    *)
(* own home directory if it has one, else SCRIPTHAUS_HOME, else            *)
(* HOME/scripthaus), without a walk: with no R the call fails; "^" gives   *)
(* R/scripthaus.md and "^a.md" gives R/a.md when the probe reports that    *)
(* file, wherever the working directory is.                                *)
(***************************************************************************)
C3_GlobalRoot ==
    Resolved /\ arg \in {"^", "^a.md", "^x.md"} =>
        IF GlobalRoot = <<>>
        THEN /\ rtnPb = <<>>
             /\ rtnErr = MkErr("cannot resolve directory for playbook", arg, "",
                               "SCRIPTHAUS_HOME and HOME not set")
        ELSE LET file == GlobalRoot[1] \o "/" \o FileOrDefault(Drop(arg, 1))
             IN  /\ rtnErr.kind # "cannot resolve directory for playbook"
                 /\ IsFile(file) =>
                        /\ rtnErr = NilErr
                        /\ rtnPb = <<MkPlaybook(arg, arg, file, "")>>
                 /\ statInfo(file).err = ErrNotExist =>
                        rtnPb = <<>> /\ rtnErr = MkErr("playbook not found", arg, file, ErrNil)

\* HOME alone is set, no directory above the working directory is a project
\* root, and "^" resolves to HOME/scripthaus/scripthaus.md
C3_Witness ==
    /\ Resolved /\ arg = "^"
    /\ r.ScHomeDir = "" /\ env.SCRIPTHAUS_HOME = "" /\ env.HOME = "/h"
    /\ TheCwd = "/p/q" /\ MarkersAbove(TheCwd) = <<>>
    /\ rtnErr = NilErr /\ rtnPb[1].ResolvedFile = "/h/scripthaus/scripthaus.md"

(***************************************************************************)
(* C4: a name with n >= 1 leading dots resolves inside the n-th project    *)
(* root found going up from the working directory (the working directory   *)
(* itself counts; a project root is a directory whose scripthaus.md the    *)
(* probe reports as a regular file). With fewer than n roots the call      *)
(* fails with "cannot find scripthaus root"; a probe that fails with       *)
(* neither not-exist nor permission on the way ends the walk with that     *)
(* error.                                                                  *)
(***************************************************************************)
C4_DotWalk ==
    Resolved /\ IsDotName(arg) /\ TheCwd # "" =>
        LET n == LeadingDots(arg)
            ms == MarkersAbove(TheCwd)
        IN  IF WalkAborts(TheCwd, n)
            THEN /\ rtnPb = <<>>
                 /\ rtnErr = MkErr("cannot resolve directory for playbook", arg, "", ErrOther)
            ELSE IF Len(ms) < n
            THEN /\ rtnPb = <<>>
                 /\ rtnErr = MkErr("cannot resolve directory for playbook", arg, "",
                                   IF Len(ms) = 0
                                   THEN "cannot find scripthaus root in any parent directory above"
                                   ELSE "cannot find scripthaus root above")
            ELSE LET file == Inside(ms[n], FileOrDefault(Drop(arg, n)))
                 IN  /\ rtnErr.kind # "cannot resolve directory for playbook"
                     /\ rtnErr = NilErr => rtnPb # <<>> /\ rtnPb[1].ProjectDir = ms[n]
                     /\ IsFile(file) =>
                            /\ rtnErr = NilErr
                            /\ rtnPb = <<MkPlaybook(arg, "." \o Drop(arg, n), file, ms[n])>>

\* ".." from /p/q, where /p/q and /p are project roots, is the file of /p
C4_Witness ==
    /\ Resolved /\ arg = ".." /\ TheCwd = "/p/q"
    /\ IsMarkerDir("/p/q") /\ IsMarkerDir("/p")
    /\ rtnErr = NilErr /\ rtnPb[1].ResolvedFile = "/p/scripthaus.md"

(***************************************************************************)
(* C5: a bare name (first character a letter or "_", no slash) that the    *)
(* probe reports as a regular file of the working directory resolves to    *)
(* that file, also when a project root above holds a file of that name.    *)
(***************************************************************************)
C5_BareLiteralFirst ==
    Resolved /\ IsBareName(arg) /\ Index(arg, "/") = 0 /\ TheCwd # ""
             /\ IsFile(Inside(TheCwd, arg)) =>
        /\ rtnErr = NilErr
        /\ rtnPb = <<MkPlaybook(arg, Inside(TheCwd, arg), Inside(TheCwd, arg), "")>>

\* /p/q is not a project root, the project root /p holds a.md, and so does /p/q
C5_Witness ==
    /\ Resolved /\ arg = "a.md" /\ TheCwd = "/p/q"
    /\ MarkersAbove(TheCwd) # <<>> /\ MarkersAbove(TheCwd)[1] = "/p" /\ IsFile("/p/a.md")
    /\ rtnErr = NilErr /\ rtnPb[1].ResolvedFile = "/p/q/a.md"

(***************************************************************************)
(* C6: a bare name that is no file of the working directory resolves       *)
(* inside the nearest project root, when the file is there.                *)
(***************************************************************************)
C6_BareFallsBackToProject ==
    Resolved /\ IsBareName(arg) /\ Index(arg, "/") = 0 /\ TheCwd # ""
             /\ statInfo(Inside(TheCwd, arg)).err = ErrNotExist
             /\ MarkersAbove(TheCwd) # <<>> /\ ~WalkAborts(TheCwd, 1)
             /\ IsFile(Inside(MarkersAbove(TheCwd)[1], arg)) =>
        /\ rtnErr = NilErr
        /\ rtnPb # <<>>
        /\ rtnPb[1].ResolvedFile = Inside(MarkersAbove(TheCwd)[1], arg)

(***************************************************************************)
(* C7 as stated: SplitScriptName never fails; it splits at the first "::"; *)
(* without "::" a leading "^" gives ("^", rest), leading dots followed by  *)
(* a letter or "_" give (dots, rest), and any other name gives             *)
(* ("", name).                                                             *)
(***************************************************************************)
Split(playbook, script) == [playbook |-> playbook, script |-> script, err |-> NilErr]

DotsThenLetter(name) ==
    /\ HasPrefix(name, ".")
    /\ Len(name) > LeadingDots(name)
    /\ Char(name, LeadingDots(name) + 1) \in LetterChars

C7_SplitAsStated ==
    pc = "SplitScriptName" =>
        IF Index(arg, "::") # 0
        THEN rtnSplit = Split(SubSeq(arg, 1, Index(arg, "::") - 1), Drop(arg, Index(arg, "::") + 1))
        ELSE IF HasPrefix(arg, "^") THEN rtnSplit = Split("^", Drop(arg, 1))
        ELSE IF DotsThenLetter(arg)
        THEN rtnSplit = Split(SubSeq(arg, 1, LeadingDots(arg)), Drop(arg, LeadingDots(arg)))
        ELSE rtnSplit = Split("", arg)

(***************************************************************************)
(* C7, amended: SplitScriptName never fails; it splits at the first "::";  *)
(* without "::" a name that ends in ".md" is a playbook with no command,   *)
(* (name, ""); otherwise a leading "^" gives ("^", rest), leading dots     *)
(* followed by a letter or "_" give (dots, rest), any other name that      *)
(* starts with "." gives (name, ""), and any other name gives ("", name).  *)
(***************************************************************************)
C7_Split ==
    pc = "SplitScriptName" =>
        IF Index(arg, "::") # 0
        THEN rtnSplit = Split(SubSeq(arg, 1, Index(arg, "::") - 1), Drop(arg, Index(arg, "::") + 1))
        ELSE IF HasSuffix(arg, ".md") THEN rtnSplit = Split(arg, "")
        ELSE IF HasPrefix(arg, "^") THEN rtnSplit = Split("^", Drop(arg, 1))
        ELSE IF DotsThenLetter(arg)
        THEN rtnSplit = Split(SubSeq(arg, 1, LeadingDots(arg)), Drop(arg, LeadingDots(arg)))
        ELSE IF HasPrefix(arg, ".") THEN rtnSplit = Split(arg, "")
        ELSE rtnSplit = Split("", arg)

C7_Witness ==
    pc = "SplitScriptName" /\ arg = "^a.md" /\ rtnSplit = Split("^a.md", "")

(***************************************************************************)
(* C8: a successful resolution gives "-" or an absolute path.              *)
(***************************************************************************)
C8_ResolvedFileAbsolute ==
    Succeeded => rtnPb[1].ResolvedFile = "-" \/ HasPrefix(rtnPb[1].ResolvedFile, "/")

(***************************************************************************)
(* C9: after a successful resolution ProjectDir is not empty exactly when  *)
(* the name had a dot prefix, and then it is a directory at or above the   *)
(* working directory whose scripthaus.md the probe reports as a regular    *)
(* file.                                                                   *)
(***************************************************************************)
C9_ProjectDir ==
    Succeeded =>
        /\ rtnPb[1].ProjectDir # "" <=> IsDotName(arg)
        /\ rtnPb[1].ProjectDir # "" =>
              /\ \E i \in 1..Len(AncestorsOf(TheCwd)) : AncestorsOf(TheCwd)[i] = rtnPb[1].ProjectDir
              /\ IsMarkerDir(rtnPb[1].ProjectDir)

C9_Witness ==
    /\ Succeeded /\ arg = "..a.md"
    /\ rtnPb[1].ProjectDir = "/" /\ rtnPb[1].ResolvedFile = "/a.md"

(***************************************************************************)
(* The file whose stat decides a resolution: <<>> when the call fails      *)
(* before it has one.                                                      *)
(***************************************************************************)
IsUnprefixedName(name) == name = "" \/ IsBareName(name)

\* the first path that is probed
Candidate(name) ==
    IF IsUnprefixedName(name)
    THEN IF TheCwd = "" THEN <<>> ELSE <<Join(TheCwd, name)>>
    ELSE IF IsGlobalName(name)
    THEN IF GlobalRoot = <<>> THEN <<>>
         ELSE <<Join(GlobalRoot[1], FileOrDefault(Drop(name, 1)))>>
    ELSE IF IsDotName(name)
    THEN IF TheCwd = "" \/ WalkAborts(TheCwd, LeadingDots(name))
            \/ Len(MarkersAbove(TheCwd)) < LeadingDots(name)
         THEN <<>>
         ELSE <<Join(MarkersAbove(TheCwd)[LeadingDots(name)],
                     FileOrDefault(Drop(name, LeadingDots(name))))>>
    ELSE IF HasPrefix(name, "/")
    THEN <<Join(name, IF HasSuffix(name, "/") THEN "scripthaus.md" ELSE "")>>
    ELSE IF IsPathName(name)
    THEN IF TheCwd = "" THEN <<>>
         ELSE <<Join(Join(TheCwd, name),
                     IF Join(TheCwd, name) = "/" THEN "scripthaus.md" ELSE "")>>
    ELSE <<>>

\* the last path that is probed: a directory is entered once, except for a
\* name without a prefix
FinalPath(name) ==
    IF ~IsUnprefixedName(name) /\ IsDirectory(Candidate(name)[1])
    THEN Join(Candidate(name)[1], "scripthaus.md")
    ELSE Candidate(name)[1]

\* the error the taxonomy gives for a failed stat
Taxonomy(errno, name, path) ==
    IF errno = ErrNotExist THEN MkErr("playbook not found", name, path, ErrNil)
    ELSE IF errno = ErrPermission THEN MkErr("permission error", name, path, errno)
    ELSE MkErr("stat error", name, path, errno)

(***************************************************************************)
(* C10 as stated: for every name form, a failed stat of the file that      *)
(* decides the resolution gives no playbook and the error of the           *)
(* taxonomy: "playbook not found", "permission error" or "stat error",     *)
(* each with the name as given and the path.                               *)
(***************************************************************************)
C10_TaxonomyForEveryForm ==
    Resolved /\ Candidate(arg) # <<>> /\ statInfo(FinalPath(arg)).err # ErrNil =>
        /\ rtnPb = <<>>
        /\ rtnErr = Taxonomy(statInfo(FinalPath(arg)).err, arg, FinalPath(arg))

(***************************************************************************)
(* The commands of a document, told from its blocks.                       *)
(***************************************************************************)
Parsed == pc = "ParseCommands"

\* the indexes of the fenced code blocks that have an info string
InfoFences == {i \in 1..Len(md.blocks) :
                  md.blocks[i].kind = "FencedCodeBlock" /\ md.blocks[i].info # ""}

\* the line of the document on which block i starts
BlockLineNo(i) == findLineNo(Len(BlocksSource(SubSeq(md.blocks, 1, i - 1))), md.mdSource)

\* the text inside fence i and the directives in it
FenceText(i) == Concat(md.blocks[i].lines)

FenceDirectives(i) == ExtractRawDirectives(FenceText(i))

IsCommandDirective(dir) == dir.Type = "command"

\* the name token of the data of a command directive: the longest prefix
\* without a space
NameToken(data) ==
    CHOOSE name \in {SubSeq(data, 1, n) : n \in 0..Len(data)} :
        /\ Index(name, " ") = 0
        /\ Len(name) = Len(data) \/ Char(data, Len(name) + 1) = " "

\* the short description in the data of a command directive: what follows
\* the name token, when that is a "-" and white space, without them
ShortDescOf(rest) ==
    IF HasPrefix(rest, "-") /\ Len(rest) > 1 /\ Char(rest, 2) \in SpaceChars
    THEN TrimLeft(Drop(rest, 1)) ELSE ""

ShortDesc(data) == ShortDescOf(TrimLeft(Drop(data, Len(NameToken(data)))))

\* the fence a returned command was built from
FenceOf(def) == CHOOSE i \in InfoFences : BlockLineNo(i) = def.StartLineNo

NamesCommand(i) ==
    /\ SelectSeq(FenceDirectives(i), IsCommandDirective) # <<>>
    /\ NameToken(SelectSeq(FenceDirectives(i), IsCommandDirective)[1].Data) # ""

\* the language tag of fence i: its info string up to the first space
LangTag(i) == NameToken(md.blocks[i].info)

\* the returned commands, and the warnings, of the block that starts on a line
DefsAt(lineNo) == {k \in 1..Len(rtnDefs) : rtnDefs[k].StartLineNo = lineNo}

WarningsAt(lineNo) == {k \in 1..Len(rtnWarnings) : rtnWarnings[k].line = lineNo}

(***************************************************************************)
(* C12: a fence that names a command and has a language tag outside the    *)
(* allow-list adds one warning and no command; every fence that names a    *)
(* command and has an allow-listed tag, before or after it, is returned,   *)
(* and ParseCommands returns no error. So every returned command has an    *)
(* allow-listed Lang.                                                      *)
(***************************************************************************)
C12_DisallowedLanguage ==
    Parsed =>
        /\ rtnErr = NilErr
        /\ \A i \in InfoFences :
              NamesCommand(i) =>
                 IF LangTag(i) \in ValidScriptTypes
                 THEN /\ Cardinality(DefsAt(BlockLineNo(i))) = 1
                      /\ WarningsAt(BlockLineNo(i)) = {}
                 ELSE /\ DefsAt(BlockLineNo(i)) = {}
                      /\ Cardinality(WarningsAt(BlockLineNo(i))) = 1
                      /\ \A k \in WarningsAt(BlockLineNo(i)) :
                            rtnWarnings[k] = InvalidLangWarning(md.blocks[i].info, LangTag(i),
                                                                BlockLineNo(i))
        /\ \A k \in 1..Len(rtnDefs) : rtnDefs[k].Lang \in ValidScriptTypes

\* a ruby fence between two valid commands
C12_Witness ==
    /\ Parsed
    /\ Len(md.blocks) = 3
    /\ InfoFences = {1, 2, 3}
    /\ LangTag(1) = "bash" /\ LangTag(2) = "ruby" /\ LangTag(3) = "python3"
    /\ NamesCommand(1) /\ NamesCommand(2) /\ NamesCommand(3)
    /\ Len(rtnDefs) = 2 /\ rtnDefs[1].Lang = "bash" /\ rtnDefs[2].Lang = "python3"
    /\ Len(rtnWarnings) = 1 /\ rtnWarnings[1].lang = "ruby"

(***************************************************************************)
(* C13 as stated: every command ParseCommands returns has a Name that      *)
(* matches [a-zA-Z_][a-zA-Z0-9_/-]*.                                       *)
(***************************************************************************)
C13_ValidNames ==
    Parsed => \A k \in 1..Len(rtnDefs) : IsValidScriptName(rtnDefs[k].Name)

(***************************************************************************)
(* C14 as stated: the names of the commands one ParseCommands call returns *)
(* are pairwise distinct.                                                  *)
(***************************************************************************)
C14_DistinctNames ==
    Parsed => \A j, k \in 1..Len(rtnDefs) : rtnDefs[j].Name = rtnDefs[k].Name => j = k

(***************************************************************************)
(* C15: ParseCommands returns the commands in document order (of two       *)
(* returned commands the earlier in the list starts on an earlier line and *)
(* at an earlier offset of the source), and the RawDirectives of each      *)
(* command have strictly increasing line numbers.                          *)
(***************************************************************************)
DocumentOrder(defs) ==
    \A j, k \in 1..Len(defs) :
        j < k => /\ defs[j].StartLineNo < defs[k].StartLineNo
                 /\ defs[j].StartIndex < defs[k].StartIndex

DirectiveOrder(dirs) ==
    \A j, k \in 1..Len(dirs) : j < k => dirs[j].LineNo < dirs[k].LineNo

C15_DocumentOrder ==
    Parsed => /\ DocumentOrder(rtnDefs)
              /\ \A k \in 1..Len(rtnDefs) : DirectiveOrder(rtnDefs[k].RawDirectives)

\* three commands are returned and one of them has three directives
C15_Witness ==
    /\ Parsed
    /\ Len(rtnDefs) = 3
    /\ \E k \in 1..Len(rtnDefs) : Len(rtnDefs[k].RawDirectives) = 3
    /\ rtnDefs[1].Name # rtnDefs[2].Name

(***************************************************************************)
(* C16: directive processing is idempotent.  A call of processDirectives   *)
(* on a CommandDef that was processed before leaves RequireEnvVars,        *)
(* ChangeDir, NoLog and Warnings as the first call left them and returns   *)
(* success, in both versions of the package.                               *)
(***************************************************************************)
DirectiveFields(def) == <<def.RequireEnvVars, def.ChangeDir, def.NoLog, def.Warnings>>

SecondCall == ncalls >= 1 /\ ncalls' = ncalls + 1

C16_Idempotent ==
    [][SecondCall => /\ DirectiveFields(cdef') = DirectiveFields(cdef)
                     /\ rtnErr' = NilErr]_vars

\* a second call was made on a CommandDef for which the first call set a
\* directory, switched logging off and gave a warning
C16_Witness ==
    /\ pc = "CheckCommand"
    /\ ncalls = 2
    /\ cdef.ChangeDir # ""
    /\ cdef.Warnings # <<>>
    /\ Len(cdef.RawDirectives) = 2

(***************************************************************************)
(* C17 as stated: after directive processing the RequireEnvVars of a       *)
(* command, of any allowed language, are the VARs of its "require VAR"     *)
(* directives that match [a-zA-Z_][a-zA-Z0-9_]*, in directive order, and   *)
(* each "require" directive whose VAR does not match added a warning.      *)
(***************************************************************************)
IsRequire(dir) == dir.Type = "require"

ValidRequire(dir) == IsRequire(dir) /\ EnvVarRe(TrimSpace(dir.Data))

InvalidRequire(dir) == IsRequire(dir) /\ ~EnvVarRe(TrimSpace(dir.Data))

RECURSIVE RequiredVars(_)
RequiredVars(dirs) ==
    IF dirs = <<>> THEN <<>>
    ELSE (IF ValidRequire(Head(dirs)) THEN <<TrimSpace(Head(dirs).Data)>> ELSE <<>>)
             \o RequiredVars(Tail(dirs))

C17_RequireEnvVars ==
    ncalls >= 1 =>
        /\ cdef.RequireEnvVars = RequiredVars(cdef.RawDirectives)
        /\ Len(cdef.Warnings) >= Len(SelectSeq(cdef.RawDirectives, InvalidRequire))

(***************************************************************************)
(* C18: processDirectives returns success for every list of raw            *)
(* directives; a directive of an unknown type or with an invalid argument  *)
(* adds one warning and nothing else, and every other directive of the     *)
(* list, before or after it, is applied.                                   *)
(***************************************************************************)
CdArg(dir) == TrimSpace(dir.Data)

\* the "cd" directives that set the directory, and what they set it to
SetsDir(dir) ==
    /\ dir.Type = "cd"
    /\ \/ CdArg(dir) \in {":playbook", ":current"}
       \/ HasPrefix(CdArg(dir), "~") /\ osUser # <<>> /\ osUser[1].HomeDir # ""
       \/ ~HasPrefix(CdArg(dir), "~") /\ HasPrefix(CdArg(dir), "/")

DirSetBy(dir) ==
    IF CdArg(dir) = ":playbook"
    THEN (IF cdef.Playbook.CanonicalName = "-" THEN "" ELSE Dir(cdef.Playbook.ResolvedFile))
    ELSE IF CdArg(dir) = ":current" THEN ""
    ELSE IF HasPrefix(CdArg(dir), "~") THEN Clean(osUser[1].HomeDir \o "/" \o Drop(CdArg(dir), 1))
    ELSE CdArg(dir)

\* the directives that are refused with a warning
Refused(dir) ==
    \/ dir.Type \notin {"command", "cd", "nolog"}
    \/ dir.Type = "cd" /\ ~SetsDir(dir) /\ ~HasPrefix(CdArg(dir), "~")

LastDirSet(dirs) ==
    IF SelectSeq(dirs, SetsDir) = <<>> THEN ""
    ELSE DirSetBy(SelectSeq(dirs, SetsDir)[Len(SelectSeq(dirs, SetsDir))])

IsNoLog(dir) == dir.Type = "nolog"

\* the directive lines the version that reads ScriptText refuses
RefusedLine(dir) == ~ValidRequire(dir)

C18_WarningsOnly ==
    /\ pc = "CheckCommand" =>
          /\ rtnErr = NilErr
          /\ cdef.NoLog = (SelectSeq(cdef.RawDirectives, IsNoLog) # <<>>)
          /\ cdef.ChangeDir = LastDirSet(cdef.RawDirectives)
          /\ Len(cdef.Warnings) = Len(SelectSeq(cdef.RawDirectives, Refused))
    /\ pc = "processDirectivesText" =>
          /\ rtnErr = NilErr
          /\ cdef.Lang = "bash" =>
                /\ cdef.RequireEnvVars = RequiredVars(cdef.RawDirectives)
                /\ Len(cdef.Warnings) = Len(SelectSeq(cdef.RawDirectives, RefusedLine))

\* a refused directive is followed by one that was applied
C18_Witness ==
    /\ pc = "CheckCommand"
    /\ Len(cdef.RawDirectives) = 2
    /\ Refused(cdef.RawDirectives[1])
    /\ cdef.RawDirectives[2].Type \in {"nolog", "cd"}
    /\ Len(cdef.Warnings) = 1
    /\ cdef.NoLog \/ cdef.ChangeDir # ""

(***************************************************************************)
(* C19 as stated: when the add command is given its script text as "-",    *)
(* the code block it prints and appends to the playbook holds the text     *)
(* that was read from standard input.                                      *)
(***************************************************************************)
Added == pc = "runAddCommand" /\ rtnCode = 0

C19_StdinTextAdded ==
    (Added /\ addOpts.ScriptText = "-") =>
        /\ Index(printed[2], stdin[1]) # 0
        /\ ~addOpts.DryRun => Index(appended, stdin[1]) # 0

(***************************************************************************)
(* C20, amended: the marker walk always terminates.  findScRootDir starts  *)
(* at curDir, or at its parent when the current directory is excluded,     *)
(* and probes one directory after the other, each the parent of the one    *)
(* before and a shorter name, so no name is probed twice.  It returns the  *)
(* first probed directory whose marker is a regular file; it returns the   *)
(* error of a probe at once when the probe fails with an error other than  *)
(* not-exist and permission-denied; otherwise it returns not-found when    *)
(* the parent is "", which for an absolute start is after "/" was probed.  *)
(* An empty start gives not-found with no probe; a relative start is       *)
(* probed once when the current directory is eligible and not at all       *)
(* otherwise.                                                              *)
(***************************************************************************)
WalkDone == pc = "findScRootDirDone"

Marker(d) == Join(d, DefaultScFile)

\* the probe of d finds no marker and the walk goes on
ProbeMisses(d) ==
    \/ statInfo(Marker(d)).err \in {ErrNotExist, ErrPermission}
    \/ statInfo(Marker(d)).err = ErrNil /\ statInfo(Marker(d)).IsDir

ProbeFinds(d) == IsFile(Marker(d))

ProbeFails(d) == statInfo(Marker(d)).err = ErrOther

FirstProbe == IF walk.allowCurrent THEN walk.start ELSE parentDir(walk.start)

ProbeChain ==
    /\ walk.probes # <<>> => walk.probes[1] = FirstProbe /\ FirstProbe # ""
    /\ \A i \in 1..(Len(walk.probes) - 1) :
         /\ walk.probes[i + 1] = parentDir(walk.probes[i])
         /\ Len(walk.probes[i + 1]) < Len(walk.probes[i])
         /\ ProbeMisses(walk.probes[i])

LastProbe == walk.probes[Len(walk.probes)]

WalkResult ==
    WalkDone =>
        \/ /\ rtnRoot.err = ErrNil
           /\ walk.probes # <<>> /\ rtnRoot.dir = LastProbe /\ ProbeFinds(LastProbe)
        \/ /\ rtnRoot = [dir |-> "", err |-> ErrOther]
           /\ walk.probes # <<>> /\ ProbeFails(LastProbe)
        \/ /\ rtnRoot = [dir |-> "", err |-> ErrNotExist]
           /\ IF walk.probes = <<>> THEN FirstProbe = ""
              ELSE ProbeMisses(LastProbe) /\ parentDir(LastProbe) = ""
           /\ HasPrefix(FirstProbe, "/") => LastProbe = "/"

WalkShort ==
    /\ walk.start = "" => walk.probes = <<>>
    /\ ~HasPrefix(walk.start, "/") =>
          Len(walk.probes) <= (IF walk.allowCurrent THEN 1 ELSE 0)

C20_WalkTerminates == [](ProbeChain /\ WalkResult /\ WalkShort) /\ <>[](pc # "findScRootDir")

\* the walk went from the deepest directory up to "/" and found no marker
C20_Witness ==
    /\ WalkDone
    /\ rtnRoot.err = ErrNotExist
    /\ Len(walk.probes) = MaxDepth + 1
    /\ walk.probes[1] = ChainDir(MaxDepth)
    /\ LastProbe = "/"

(***************************************************************************)
(* C20 as stated: no directory is probed twice, the walk stops at the      *)
(* first directory that holds the marker file and otherwise returns        *)
(* not-found after "/" was probed; a start that is empty or not absolute   *)
(* gives not-found without a probe.                                        *)
(***************************************************************************)
C20_AsStated ==
    /\ \A i, j \in 1..Len(walk.probes) :
          Clean(walk.probes[i]) = Clean(walk.probes[j]) => i = j
    /\ WalkDone =>
          \/ /\ rtnRoot.err = ErrNil
             /\ rtnRoot.dir = LastProbe /\ ProbeFinds(LastProbe)
          \/ /\ rtnRoot = [dir |-> "", err |-> ErrNotExist]
             /\ HasPrefix(FirstProbe, "/") => walk.probes # <<>> /\ LastProbe = "/"
    /\ (WalkDone /\ ~HasPrefix(walk.start, "/")) =>
          rtnRoot.err = ErrNotExist /\ walk.probes = <<>>

(***************************************************************************)
(* C21: during the marker walk a permission error of the stat probe is     *)
(* never returned: the directory counts as one without a marker and the    *)
(* walk goes on with its parent, so a marker further up is still found.    *)
(***************************************************************************)
ProbeDenied(d) == statInfo(Marker(d)).err = ErrPermission

\* the walk went on after its i-th probe: the next probe is the parent, or the
\* parent is the loop variable, or there is no parent and the result is not-found
WentOnAfter(i) ==
    IF i < Len(walk.probes) THEN walk.probes[i + 1] = parentDir(walk.probes[i])
    ELSE IF WalkDone THEN parentDir(walk.probes[i]) = "" /\ rtnRoot.err = ErrNotExist
    ELSE walk.curDir = parentDir(walk.probes[i])

C21_PermissionIgnored ==
    /\ rtnRoot.err # ErrPermission
    /\ \A i \in 1..Len(walk.probes) : ProbeDenied(walk.probes[i]) => WentOnAfter(i)

\* the probe of the start directory was denied and the walk found the marker of
\* its parent
C21_Witness ==
    /\ WalkDone
    /\ Len(walk.probes) = 2
    /\ ProbeDenied(walk.probes[1])
    /\ rtnRoot = [dir |-> parentDir(walk.probes[1]), err |-> ErrNil]

(***************************************************************************)
(* C22: resolvePlaybookInDir makes at most two stat probes; it makes the   *)
(* second exactly when the first reports a directory, on scripthaus.md     *)
(* inside that directory; a path it returns was reported as a regular file *)
(* by its last probe, and a directory after the retry is an error.         *)
(***************************************************************************)
InDirDone == pc = "resolvePlaybookInDirDone"

ReportsDir(path) == statInfo(path).err = ErrNil /\ statInfo(path).IsDir

LastStat == inDir.stats[Len(inDir.stats)]

C22_AtMostTwoProbes ==
    /\ Len(inDir.stats) <= 2
    /\ Len(inDir.stats) = 2 =>
          ReportsDir(inDir.stats[1]) /\ inDir.stats[2] = Join(inDir.stats[1], DefaultScFile)
    /\ InDirDone =>
          /\ ReportsDir(inDir.stats[1]) <=> Len(inDir.stats) = 2
          /\ rtnFile.err = NilErr => rtnFile.file = LastStat /\ IsFile(rtnFile.file)
          /\ ReportsDir(LastStat) => rtnFile.err.kind = "is a directory not a file"
          /\ rtnFile = resolvePlaybookInDir(inDir.origName, inDir.curDir, inDir.playbookName)

\* the first path was a directory whose scripthaus.md is a directory too
C22_Witness ==
    /\ InDirDone
    /\ Len(inDir.stats) = 2
    /\ ReportsDir(inDir.stats[2])
    /\ rtnFile.err # NilErr

(***************************************************************************)
(* C23: FindPrefixDir never accepts a prefix other than "^" that holds a   *)
(* character other than ".".  It reports "invalid prefix character", with  *)
(* the first such character, exactly when the dots before that character   *)
(* resolve on their own (with no dot before it: when the working directory *)
(* is known); otherwise it fails as those dots fail.                       *)
(***************************************************************************)
PrefixDone == pc = "FindPrefixDir"

BadPrefix == arg # "^" /\ LeadingDots(arg) < Len(arg)

\* what the dots before the first other character resolve to
DotsBefore ==
    IF LeadingDots(arg) = 0 THEN Getwd ELSE FindPrefixDir(SubSeq(arg, 1, LeadingDots(arg)))

InvalidCharacter ==
    MkErr("invalid prefix character", "", Char(arg, LeadingDots(arg) + 1), ErrNil)

C23_BadPrefixRejected ==
    PrefixDone /\ BadPrefix =>
        /\ rtnPrefix.dir = ""
        /\ rtnPrefix.err # NilErr
        /\ rtnPrefix.err = IF DotsBefore.err = NilErr THEN InvalidCharacter ELSE DotsBefore.err

\* one dot resolves and the character after it is reported
C23_Witness ==
    /\ PrefixDone
    /\ arg = ".x"
    /\ FindPrefixDir(".").err = NilErr
    /\ rtnPrefix.err = InvalidCharacter

\* C23 as the specification states it: the invalid character is reported whatever
\* the working directory and the file system hold
C23_AsStated ==
    PrefixDone /\ BadPrefix => rtnPrefix.err.kind = "invalid prefix character"

(***************************************************************************)
(* The help-text start, breakIdx, of ParseCommands after the first i       *)
(* top-level nodes of the document.                                        *)
(***************************************************************************)
BreakIdxAfter(i) == IF i = 0 THEN -1 ELSE breakIdxs[i]

\* the offset in the source at which block i starts, and the one after its end
BlockStart(i) == Len(BlocksSource(SubSeq(md.blocks, 1, i - 1)))

BlockEnd(i) == Len(BlocksSource(SubSeq(md.blocks, 1, i)))

\* fence i names a command and has an allow-listed language, or a rejected one
BuildsDef(i) == i \in InfoFences /\ NamesCommand(i) /\ LangTag(i) \in ValidScriptTypes

RejectedLang(i) == i \in InfoFences /\ NamesCommand(i) /\ LangTag(i) \notin ValidScriptTypes

\* the command returned for fence i
DefOf(i) == rtnDefs[CHOOSE k \in 1..Len(rtnDefs) : rtnDefs[k].StartLineNo = BlockLineNo(i)]

(***************************************************************************)
(* C24: a command consumes its help text.  After a CommandDef is built the *)
(* help-text start is -1, and a command fence that follows another command *)
(* fence with no block between them has an empty HelpText and starts at    *)
(* its own fence.                                                          *)
(***************************************************************************)
C24_HelpTextConsumed ==
    Parsed =>
        \A i \in 1..Len(md.blocks) :
            BuildsDef(i) =>
                /\ BreakIdxAfter(i) = -1
                /\ i < Len(md.blocks) /\ BuildsDef(i + 1) =>
                      /\ DefOf(i + 1).HelpText = ""
                      /\ DefOf(i + 1).StartIndex = BlockStart(i + 1)

\* prose, a command that takes it as its help text, and a command right after
C24_Witness ==
    /\ Parsed
    /\ Len(md.blocks) = 3
    /\ md.blocks[1].kind = "Paragraph"
    /\ BuildsDef(2) /\ BuildsDef(3)
    /\ Len(rtnDefs) = 2
    /\ rtnDefs[1].HelpText = "some prose"
    /\ rtnDefs[2].HelpText = ""

Severs(i) ==
    \/ md.blocks[i].kind = "ThematicBreak"
    \/ md.blocks[i].kind = "Heading" /\ md.blocks[i].level < 4

MinorHeading(i) == md.blocks[i].kind = "Heading" /\ md.blocks[i].level > 4

\* no command of a later block reaches back to block i
NothingReachesBack(i) ==
    \A j \in (i + 1)..Len(md.blocks) : BuildsDef(j) => DefOf(j).StartIndex >= BlockEnd(i)

C26_HeadingsSever ==
    Parsed =>
        \A i \in 1..Len(md.blocks) :
            /\ Severs(i) => BreakIdxAfter(i) = -1 /\ NothingReachesBack(i)
            /\ MinorHeading(i) =>
                  BreakIdxAfter(i) = IF BreakIdxAfter(i - 1) = -1 THEN BlockStart(i)
                                     ELSE BreakIdxAfter(i - 1)

\* prose, a level-2 heading, a command: the command has no help text
C26_Witness ==
    /\ Parsed
    /\ Len(md.blocks) = 3
    /\ md.blocks[1].kind = "Paragraph"
    /\ md.blocks[2].kind = "Heading" /\ md.blocks[2].level = 2
    /\ BuildsDef(3)
    /\ rtnDefs[1].HelpText = ""
    /\ rtnDefs[1].StartIndex = BlockStart(3)

\* C26 as the specification states it: every heading of a level other than 4 severs
C26_AsStated ==
    Parsed =>
        \A i \in 1..Len(md.blocks) :
            Severs(i) \/ MinorHeading(i) => BreakIdxAfter(i) = -1 /\ NothingReachesBack(i)

(***************************************************************************)
(* C27: a fence with an info string that names no command gives no         *)
(* CommandDef and resets the help-text start to -1; it adds the warning    *)
(* about directives without a command directive exactly when it holds a    *)
(* directive of a type other than "command".                               *)
(***************************************************************************)
HasOtherDirective(i) == \E k \in 1..Len(FenceDirectives(i)) : FenceDirectives(i)[k].Type # "command"

NoCommandWarned(i) ==
    \E k \in WarningsAt(BlockLineNo(i)) : rtnWarnings[k] = NoCommandWarning(BlockLineNo(i))

C27_NoCommandName ==
    Parsed =>
        \A i \in InfoFences :
            ~NamesCommand(i) =>
                /\ DefsAt(BlockLineNo(i)) = {}
                /\ BreakIdxAfter(i) = -1
                /\ NoCommandWarned(i) <=> HasOtherDirective(i)

(***************************************************************************)
(* C28: ExtractRawDirectives returns one RawDirective for every line that, *)
(* after its leading white space is stripped, matches the directive        *)
(* pattern, an indented directive line included, with LineNo the 1-based   *)
(* index of the line in the scanned text, and nothing for any other line.  *)
(***************************************************************************)
Scanned == pc = "ExtractRawDirectives"

\* the lines of the scanned text
TextLines == StringsSplit(scanText, "\n")

\* line i is a directive line once its leading white space is stripped
DirectiveLine(i) == directiveRe(TrimLeft(TextLines[i])) # <<>>

C28_IndentedRecognized ==
    Scanned =>
        /\ \A i \in 1..Len(TextLines) :
              Cardinality({k \in 1..Len(rtnDirectives) : rtnDirectives[k].LineNo = i})
                  = IF DirectiveLine(i) THEN 1 ELSE 0
        /\ \A k \in 1..Len(rtnDirectives) : rtnDirectives[k].LineNo \in 1..Len(TextLines)

(***************************************************************************)
(* C29: after processDirectives ChangeDir is what the last "cd" directive  *)
(* that is not ignored gives (":playbook" the directory of the playbook's  *)
(* ResolvedFile, ":current" the empty value, an absolute path that path);  *)
(* a target that is not absolute adds one warning and leaves ChangeDir as  *)
(* it was.  So ChangeDir is always empty or an absolute path.              *)
(***************************************************************************)
RelativeTarget(dir) ==
    /\ dir.Type = "cd"
    /\ CdArg(dir) \notin {":playbook", ":current"}
    /\ ~HasPrefix(CdArg(dir), "~")
    /\ ~HasPrefix(CdArg(dir), "/")

RelativeWarning(dir) == "'cd' directive must be absolute, got '" \o CdArg(dir) \o "' (ignoring)"

C29_ChangeDirAbsolute ==
    pc = "CheckCommand" =>
        /\ cdef.ChangeDir = LastDirSet(cdef.RawDirectives)
        /\ \A i \in 1..Len(cdef.RawDirectives) :
              RelativeTarget(cdef.RawDirectives[i]) =>
                  \E k \in 1..Len(cdef.Warnings) :
                      cdef.Warnings[k] = RelativeWarning(cdef.RawDirectives[i])
        /\ cdef.ChangeDir = "" \/ HasPrefix(cdef.ChangeDir, "/")

(***************************************************************************)
(* C30: CanonicalName round-trips for every name but one with a prefix of  *)
(* two or more dots: when the name resolves, resolving the CanonicalName   *)
(* that was returned, with the same working directory, file system and     *)
(* environment, succeeds with the same ResolvedFile.  For a prefix of two  *)
(* or more dots the CanonicalName is one dot and the rest of the name, and *)
(* names the ResolvedFile inside the returned ProjectDir.                  *)
(***************************************************************************)
ResolvedOk == pc = "ResolvePlaybook" /\ rtnErr = NilErr

SameFileAgain(again) ==
    /\ again.err = NilErr
    /\ again.pb[1].ResolvedFile = rtnPb[1].ResolvedFile

\* the name is a prefix of two or more dots and a file name in the project
ManyDots == LeadingDots(arg) >= 2 /\ PlaybookPrefixRe(arg) # <<>>

\* the part of the name after its dots
AfterDots == Drop(arg, LeadingDots(arg))

C30_CanonicalRoundTrip ==
    ResolvedOk =>
        IF ~ManyDots
        THEN SameFileAgain(ResolvePlaybook(rtnPb[1].CanonicalName))
        ELSE /\ rtnPb[1].CanonicalName = "." \o AfterDots
             /\ resolvePlaybookInDir(rtnPb[1].CanonicalName, rtnPb[1].ProjectDir, AfterDots)
                   = [file |-> rtnPb[1].ResolvedFile, err |-> NilErr]

\* two dots reach the project above the nearest one, and the CanonicalName
\* resolves to the playbook of the nearest one
C30_Witness ==
    /\ ResolvedOk
    /\ arg = "..a.md"
    /\ rtnPb[1].CanonicalName = ".a.md"
    /\ ResolvePlaybook(".a.md").err = NilErr
    /\ ~SameFileAgain(ResolvePlaybook(".a.md"))

\* C30 as the specification states it: the round trip holds for every name
C30_AsStated ==
    ResolvedOk => SameFileAgain(ResolvePlaybook(rtnPb[1].CanonicalName))
====
